---- MODULE Spec2Model ----
(***************************************************************************)
(* stored-data-object: a schema-typed JSON document store (src/index.js).  *)
(*                                                                         *)
(* JavaScript values are modelled as nodes [t, v, f, e]:                   *)
(*   t  the kind ("undefined", "null", "number", "string", "boolean",      *)
(*      "function", "object", "array", "ref"),                             *)
(*   v  the payload of a primitive (strings are numbered: 0 is '', the     *)
(*      only falsy string) or the address of a "ref",                      *)
(*   f  the own properties of an "object" tree, e the elements of an       *)
(*      "array" tree.                                                      *)
(* Objects and arrays that have an identity live in the heap, as cells     *)
(* [k, f, e] whose properties and elements are primitives or refs.  A tree *)
(* ("object"/"array" nodes nested directly) is a value without identity:   *)
(* the text of a JSON file, or the content of a heap value.                *)
(***************************************************************************)
EXTENDS Integers, Sequences, FiniteSets, TLC

VARIABLES
    heap,       \* address -> cell: every object and array the program holds
    fs,         \* path -> the file: [s: "missing" | "empty" | "bad" | "json", j: tree]
    stores,     \* handle -> the createSDO call and the handle it returned
    tasks,      \* the lock.run calls, in call order
    fileLocks,  \* path -> [has: the registry holds a lock for the path,
                \*          queue: the task whose settlement lock.queue waits
                \*                 for, 0 for the initial Promise.resolve()]
    log,        \* what console.error / console.log printed
    used        \* how many in-memory changes and outside edits happened

vars == <<heap, fs, stores, tasks, fileLocks, log, used>>

----------------------------------------------------------------------------
(* Values *)

NoF == [k \in {} |-> 0]

Node(t, v, f, e) == [t |-> t, v |-> v, f |-> f, e |-> e]
Undef   == Node("undefined", 0, NoF, <<>>)
Null    == Node("null", 0, NoF, <<>>)
Func    == Node("function", 0, NoF, <<>>)
Num(i)  == Node("number", i, NoF, <<>>)
Str(i)  == Node("string", i, NoF, <<>>)
Bool(i) == Node("boolean", i, NoF, <<>>)
Ref(a)  == Node("ref", a, NoF, <<>>)
Obj(f)  == Node("object", 0, f, <<>>)
Arr(e)  == Node("array", 0, NoF, e)

\* Property names every object inherits from Object.prototype: `key in obj`
\* and `obj[key]` find them although they are not own properties.
ProtoKeys == {"toString"}

\* The order in which Object.keys / Object.entries list own properties
\* (insertion order in the program; one fixed order here).
KeyOrder == <<"n", "o", "a", "s", "b", "x", "toString", "">>

RECURSIVE KeysFrom(_, _)
KeysFrom(dom, i) ==
    IF i > Len(KeyOrder) THEN <<>>
    ELSE IF KeyOrder[i] \in dom THEN <<KeyOrder[i]>> \o KeysFrom(dom, i + 1)
    ELSE KeysFrom(dom, i + 1)

\* Object.keys(obj) for own-property set dom
ObjectKeys(dom) == KeysFrom(dom, 1)

\* typeof x, for a tree or a heap value
TypeOf(x) ==
    CASE x.t = "undefined" -> "undefined"
      [] x.t = "number"    -> "number"
      [] x.t = "string"    -> "string"
      [] x.t = "boolean"   -> "boolean"
      [] x.t = "function"  -> "function"
      [] OTHER             -> "object"      \* null, objects, arrays

\* !x
Falsy(x) ==
    \/ x.t \in {"undefined", "null"}
    \/ x.t \in {"number", "string", "boolean"} /\ x.v = 0

\* obj[key] on a tree object
TreeGet(x, key) ==
    IF key \in DOMAIN x.f THEN x.f[key]
    ELSE IF key \in ProtoKeys THEN Func
    ELSE Undef

----------------------------------------------------------------------------
(* Schemas: [t: "string" | "number" | "boolean", opt] for 'string', 'number?' *)
(* ...; [t: "object", keys, f] for { key: schema, ... } with its keys in      *)
(* declaration order; [t: "array", items] for a tuple of item schemas.       *)

Prim(t)       == [t |-> t, opt |-> FALSE]
Opt(t)        == [t |-> t, opt |-> TRUE]
SObj(keys, f) == [t |-> "object", keys |-> keys, f |-> f]
SArr(items)   == [t |-> "array", items |-> items]

\* Errors: `prefix` is what an enclosing catch put before the cause, `msg`
\* the cause's text with its parameters in file/field/got/val.
Err(prefix, msg, file, field, got, val) ==
    [prefix |-> prefix, msg |-> msg, file |-> file, field |-> field,
     got |-> got, val |-> val]
NoErr == Err("", "", 0, "", "", Undef)
Wrap(prefix, err) == [err EXCEPT !.prefix = prefix]

SchemaError == Err("", "Invalid array schema, required tuple length 1 declare schema type",
                   0, "", "", Undef)

\* isArraySchema(type): "yes", "no", or "throw" for an array of length # 1
isArraySchema(type) ==
    IF type.t = "array"
    THEN IF Len(type.items) = 1 THEN "yes" ELSE "throw"
    ELSE "no"

ZeroOf(baseType) ==
    CASE baseType = "string"  -> Str(0)
      [] baseType = "number"  -> Num(0)
      [] baseType = "boolean" -> Bool(0)

\* A default of null for an optional primitive
primitiveDefaultNull(schema) == IF schema.opt THEN Null ELSE ZeroOf(schema.t)

\* createDefaultFromSchema for a primitive schema ('string', 'number?', ...)
primitiveDefault(schema) == IF schema.opt THEN Undef ELSE ZeroOf(schema.t)

\* createDefaultFromSchema(schema): [ok, val, err]
RECURSIVE createDefaultFromSchema(_)
createDefaultFromSchema(schema) ==
    IF isArraySchema(schema) = "throw" THEN [ok |-> FALSE, val |-> Undef, err |-> SchemaError]
    ELSE IF isArraySchema(schema) = "yes" THEN [ok |-> TRUE, val |-> Arr(<<>>), err |-> NoErr]
    ELSE IF schema.t \in {"string", "number", "boolean"}
    THEN [ok |-> TRUE, val |-> primitiveDefault(schema), err |-> NoErr]
    ELSE LET sub == [k \in DOMAIN schema.f |-> createDefaultFromSchema(schema.f[k])]
             bad == {i \in 1..Len(schema.keys) : ~sub[schema.keys[i]].ok}
         IN IF bad # {}
            THEN LET i == CHOOSE i \in bad : \A j \in bad : i <= j
                 IN [ok |-> FALSE, val |-> Undef, err |-> sub[schema.keys[i]].err]
            ELSE [ok |-> TRUE, val |-> Obj([k \in DOMAIN schema.f |-> sub[k].val]),
                  err |-> NoErr]

Article(baseType) == IF baseType = "string" THEN "must be a string"
                     ELSE IF baseType = "number" THEN "must be a number"
                     ELSE "must be a boolean"

\* The primitive branch accepting any value for an optional field
validatePrimitiveLax(data, schema, path) ==
    IF data.t \in {"undefined", "null"}
    THEN [ok |-> TRUE, val |-> IF schema.opt THEN Undef ELSE ZeroOf(schema.t),
          err |-> NoErr]
    ELSE IF TypeOf(data) # schema.t /\ ~schema.opt
    THEN [ok |-> FALSE, val |-> Undef,
          err |-> Err("", Article(schema.t), 0, path, TypeOf(data), data)]
    ELSE [ok |-> TRUE, val |-> data, err |-> NoErr]

\* validateAndCoerce for a primitive schema ('string', 'number?', ...)
validatePrimitive(data, schema, path) ==
    IF data.t \in {"undefined", "null"}
    THEN [ok |-> TRUE, val |-> IF schema.opt THEN Undef ELSE ZeroOf(schema.t),
          err |-> NoErr]
    ELSE IF TypeOf(data) # schema.t
    THEN [ok |-> FALSE, val |-> Undef,
          err |-> Err("", Article(schema.t), 0, path, TypeOf(data), data)]
    ELSE [ok |-> TRUE, val |-> data, err |-> NoErr]

\* An object result that keeps the properties of data the schema does not name
objectResultAll(data, schema, sub) ==
    Obj([k \in DOMAIN data.f \cup DOMAIN schema.f |->
            IF k \in DOMAIN schema.f THEN sub[k].val ELSE data.f[k]])

\* An object result without the properties whose value is undefined
objectResultDefined(data, schema, sub) ==
    Obj([k \in {k \in DOMAIN schema.f : sub[k].val.t # "undefined"} |-> sub[k].val])

\* `result` of the object branch: result[key] is assigned for every key of
\* the schema; sub[key] is what validateAndCoerce returned for it
objectResult(data, schema, sub) ==
    Obj([k \in DOMAIN schema.f |-> sub[k].val])

\* A field path that names the field only
fieldPathLocal(path, key) == key

\* const fieldPath = path ? `${path}.${key}` : key
fieldPath(path, key) == IF path = "" THEN key ELSE path \o "." \o key

\* validateAndCoerce(data, schema, path) on the content of data: [ok, val, err].
\* The result is built from new objects and arrays only (`result = {}`,
\* `data.map`), so it is returned as a tree and allocated by the caller.
RECURSIVE validateAndCoerce(_, _, _)
validateAndCoerce(data, schema, path) ==
    IF isArraySchema(schema) = "throw" THEN [ok |-> FALSE, val |-> Undef, err |-> SchemaError]
    ELSE IF isArraySchema(schema) = "yes" THEN
        IF data.t # "array"
        THEN [ok |-> FALSE, val |-> Undef,
              err |-> Err("", "must be an array", 0, path, TypeOf(data), Undef)]
        ELSE LET sub == [i \in 1..Len(data.e) |->
                            validateAndCoerce(data.e[i], schema.items[1],
                                              path \o "[" \o ToString(i - 1) \o "]")]
                 bad == {i \in 1..Len(data.e) : ~sub[i].ok}
             IN IF bad # {}
                THEN [ok |-> FALSE, val |-> Undef,
                      err |-> sub[CHOOSE i \in bad : \A j \in bad : i <= j].err]
                ELSE [ok |-> TRUE, val |-> Arr([i \in 1..Len(data.e) |-> sub[i].val]),
                      err |-> NoErr]
    ELSE IF schema.t \in {"string", "number", "boolean"} THEN
        validatePrimitive(data, schema, path)
    ELSE
        IF Falsy(data) \/ data.t # "object"
        THEN [ok |-> FALSE, val |-> Undef,
              err |-> Err("", "must be an object", 0, path, TypeOf(data), Undef)]
        ELSE LET sub == [k \in DOMAIN schema.f |->
                            validateAndCoerce(TreeGet(data, k), schema.f[k],
                                              fieldPath(path, k))]
                 bad == {i \in 1..Len(schema.keys) : ~sub[schema.keys[i]].ok}
             IN IF bad # {}
                THEN LET i == CHOOSE i \in bad : \A j \in bad : i <= j
                     IN [ok |-> FALSE, val |-> Undef, err |-> sub[schema.keys[i]].err]
                ELSE [ok |-> TRUE, val |-> objectResult(data, schema, sub), err |-> NoErr]

----------------------------------------------------------------------------
(* The heap *)

Cell(k, f, e) == [k |-> k, f |-> f, e |-> e]

\* The address a new object gets: the smallest one not in use
Fresh(h) == CHOOSE a \in 1..(Cardinality(DOMAIN h) + 1) :
                /\ a \notin DOMAIN h
                /\ \A b \in 1..(a - 1) : b \in DOMAIN h

IsObjectRef(h, x) == x.t = "ref" /\ h[x.v].k = "object"
IsArrayRef(h, x)  == x.t = "ref" /\ h[x.v].k = "array"     \* Array.isArray(x)

IndexOf(seq, x) == CHOOSE i \in 1..Len(seq) : seq[i] = x

\* Building the objects and arrays of a tree (an object literal of the
\* caller, the result of JSON.parse, the result of validateAndCoerce):
\* every object and array of the tree is a new cell.  [h, val]
RECURSIVE Alloc(_, _), AllocSeq(_, _)
AllocSeq(h, trees) ==
    IF trees = <<>> THEN [h |-> h, vals |-> <<>>]
    ELSE LET r1 == Alloc(h, Head(trees))
             r2 == AllocSeq(r1.h, Tail(trees))
         IN [h |-> r2.h, vals |-> <<r1.val>> \o r2.vals]
Alloc(h, tree) ==
    IF tree.t = "object" THEN
        LET keys == ObjectKeys(DOMAIN tree.f)
            a    == Fresh(h)
            h1   == (a :> Cell("object", NoF, <<>>)) @@ h
            r    == AllocSeq(h1, [i \in 1..Len(keys) |-> tree.f[keys[i]]])
        IN [h |-> [r.h EXCEPT ![a] =
                      Cell("object", [k \in DOMAIN tree.f |-> r.vals[IndexOf(keys, k)]], <<>>)],
            val |-> Ref(a)]
    ELSE IF tree.t = "array" THEN
        LET a  == Fresh(h)
            h1 == (a :> Cell("array", NoF, <<>>)) @@ h
            r  == AllocSeq(h1, tree.e)
        IN [h |-> [r.h EXCEPT ![a] = Cell("array", NoF, r.vals)], val |-> Ref(a)]
    ELSE [h |-> h, val |-> tree]

\* The content of a heap value, as a tree (own properties, undefined included)
RECURSIVE Snap(_, _)
Snap(h, x) ==
    IF x.t # "ref" THEN x
    ELSE IF h[x.v].k = "object"
    THEN Obj([k \in DOMAIN h[x.v].f |-> Snap(h, h[x.v].f[k])])
    ELSE Arr([i \in 1..Len(h[x.v].e) |-> Snap(h, h[x.v].e[i])])

\* A serialization that writes properties whose value is undefined
stringifyAll(h, x) == Snap(h, x)

\* JSON.stringify(x, null, '\t') as the tree its text denotes: properties
\* whose value is undefined or a function are left out, such elements of an
\* array are written as null.
RECURSIVE stringify(_, _)
stringify(h, x) ==
    IF x.t = "ref" THEN
        IF h[x.v].k = "object"
        THEN LET own == {k \in DOMAIN h[x.v].f : h[x.v].f[k].t \notin {"undefined", "function"}}
             IN Obj([k \in own |-> stringify(h, h[x.v].f[k])])
        ELSE Arr([i \in 1..Len(h[x.v].e) |->
                    IF h[x.v].e[i].t \in {"undefined", "function"} THEN Null
                    ELSE stringify(h, h[x.v].e[i])])
    ELSE x

\* target[key]
Get(h, t, key) ==
    IF key \in DOMAIN h[t].f THEN h[t].f[key]
    ELSE IF key \in ProtoKeys THEN Func
    ELSE Undef

\* key in source
HasProperty(h, s, key) == key \in DOMAIN h[s].f \/ key \in ProtoKeys

\* updateObject assigning every property of source (`target[key] = value`)
RECURSIVE updateEntriesAssign(_, _, _, _)
updateEntriesAssign(h, t, entries, i) ==
    IF i > Len(entries) THEN [h |-> h, ok |-> TRUE]
    ELSE updateEntriesAssign([h EXCEPT ![t].f = (entries[i][1] :> entries[i][2]) @@ @],
                             t, entries, i + 1)

\* updateObject(target, source): target is the address of an object, source
\* a value with typeof 'object' that is no array (an object, or null).
\* [h, ok]: ok is FALSE when it throws (source null), h is the heap it leaves.
RECURSIVE updateObject(_, _, _), updateEntries(_, _, _, _)
updateObject(h, t, source) ==
    IF source.t = "null" THEN [h |-> h, ok |-> FALSE]
    ELSE LET s    == source.v
             kept == {k \in DOMAIN h[t].f : HasProperty(h, s, k)}
             h1   == [h EXCEPT ![t].f = [k \in kept |-> h[t].f[k]]]
             keys == ObjectKeys(DOMAIN h1[s].f)
         IN updateEntries(h1, t, [i \in 1..Len(keys) |-> <<keys[i], h1[s].f[keys[i]]>>], 1)
updateEntries(h, t, entries, i) ==
    IF i > Len(entries) THEN [h |-> h, ok |-> TRUE]
    ELSE LET key   == entries[i][1]
             value == entries[i][2]
             tv    == Get(h, t, key)
             isTargetObject == IsObjectRef(h, tv)
             isSourceObject == value.t = "null" \/ IsObjectRef(h, value)
         IN IF isTargetObject /\ isSourceObject THEN
                LET r == updateObject(h, tv.v, value)
                IN IF r.ok THEN updateEntries(r.h, t, entries, i + 1) ELSE r
            ELSE IF IsArrayRef(h, tv) /\ IsArrayRef(h, value) THEN
                \* length = 0, then push(...value): of value as it is then
                updateEntries([h EXCEPT ![tv.v].e = IF tv.v = value.v THEN <<>> ELSE h[value.v].e],
                              t, entries, i + 1)
            ELSE updateEntries([h EXCEPT ![t].f = (key :> value) @@ @], t, entries, i + 1)

\* updateDataRef(data, newValidatedData): [h, ok]
updateDataRef(h, data, newValidatedData) ==
    IF data.t # "ref" THEN [h |-> h, ok |-> TRUE]
    ELSE IF IsObjectRef(h, data) /\ IsObjectRef(h, newValidatedData)
    THEN updateObject(h, data.v, newValidatedData)
    ELSE [h |-> h, ok |-> TRUE]

\* The plain objects reached from object a through object properties only,
\* each with the property names that lead to it
RECURSIVE NestedObjects(_, _, _)
NestedObjects(h, a, path) ==
    {<<path, a>>} \cup
    UNION {NestedObjects(h, h[a].f[k].v, Append(path, k)) :
             k \in {k \in DOMAIN h[a].f : IsObjectRef(h, h[a].f[k])}}

ObjectsOf(h, x) == IF IsObjectRef(h, x) THEN NestedObjects(h, x.v, <<>>) ELSE {}

\* A nested object of x is the same object in h1 and h2, with other content
KeptAndChanged(h1, h2, x) ==
    \E n \in ObjectsOf(h1, x) \cap ObjectsOf(h2, x) :
        n[1] # <<>> /\ Snap(h1, Ref(n[2])) # Snap(h2, Ref(n[2]))

\* The cells reachable from a set of values
RECURSIVE Reach(_, _, _)
Reach(h, todo, seen) ==
    IF todo = {} THEN seen
    ELSE LET a    == CHOOSE a \in todo : TRUE
             cell == h[a]
             out  == {cell.f[k].v : k \in {k \in DOMAIN cell.f : cell.f[k].t = "ref"}}
                     \cup {cell.e[i].v : i \in {i \in 1..Len(cell.e) : cell.e[i].t = "ref"}}
         IN Reach(h, (todo \cup out) \ (seen \cup {a}), seen \cup {a})

\* The heap without the cells nothing refers to any more
Collect(h, roots) ==
    LET live == Reach(h, {x.v : x \in {x \in roots : x.t = "ref"}}, {})
    IN [a \in live |-> h[a]]

----------------------------------------------------------------------------
(* Bounds and inputs *)

Handles == DOMAIN stores     \* the createSDO calls (store handles)
Paths   == DOMAIN fs         \* the absolute paths

\* { n: 'number', o: { s: 'string?' }, a: ['number'] }
ObjSchema == SObj(<<"n", "o", "a">>,
                  [n |-> Prim("number"),
                   o |-> SObj(<<"s">>, [s |-> Opt("string")]),
                   a |-> SArr(<<Prim("number")>>)])

\* { n: 'number' }
NumSchema == SObj(<<"n">>, [n |-> Prim("number")])
One    == Obj([n |-> Num(1)])       \* conforms to NumSchema
NotNum == Obj([n |-> Str(1)])       \* does not: n is a string

Tree3(n, o, a) == Obj([n |-> n, o |-> o, a |-> a])
Full     == Tree3(Num(1), Obj([s |-> Str(1)]), Arr(<<Num(1)>>))     \* conforms
Other    == Tree3(Num(0), Obj(NoF), Arr(<<Num(0), Num(1)>>))        \* conforms
Extra    == Obj([n |-> Num(1), o |-> Obj(NoF), a |-> Arr(<<>>), x |-> Num(1)])
Named    == Obj([n |-> Num(1), o |-> Obj(NoF), a |-> Arr(<<>>), toString |-> Num(1)])
WrongN   == Tree3(Str(1), Obj(NoF), Arr(<<>>))                      \* n is a string
NullO    == Tree3(Num(1), Null, Arr(<<>>))                          \* o is null
RootArr  == Arr(<<>>)                                               \* not an object

\* ['number']: the data of the store is an array
NumArrSchema == SArr(<<Prim("number")>>)

File(s, j) == [s |-> s, j |-> j]
Missing    == File("missing", Null)
EmptyText  == File("empty", Null)       \* '' or white space only
BadText    == File("bad", Null)         \* not JSON, e.g. '{bad'
Json(j)    == File("json", j)

Settled == {"fulfilled", "rejected"}

NoStore == [pc |-> "idle", path |-> 0, schema |-> ObjSchema, autoValidate |-> TRUE,
            defaultValue |-> Undef, data |-> Undef, text |-> Null, err |-> NoErr,
            \* the property `data` of the handle the call returned
            prop |-> Undef,
            \* history: the content of the default at the call, whether the
            \* file existed at the call, what fs.readFile delivered, whether
            \* createSDO wrote the file
            default0 |-> Undef, existed |-> FALSE, found |-> Missing, wrote |-> FALSE]

\* Everything the program or its caller can still reach
Roots(st, ts) ==
    {st[h].defaultValue : h \in Handles} \cup {st[h].data : h \in Handles}
    \cup {st[h].prop : h \in Handles}
    \cup {ts[t].arg : t \in 1..Len(ts)}

----------------------------------------------------------------------------
(* readAndParseJSON that ignores the content of the file                    *)
readAndParseJSONDefault(h, path, file, defaultValue) ==
    [h |-> h, ok |-> TRUE, val |-> defaultValue, logs |-> {}, err |-> NoErr]

(* readAndParseJSON, after fs.readFile delivered the file `file` of `path`: *)
(* [h, ok, val, err, logs]                                                  *)
readAndParseJSON(h, path, file, defaultValue) ==
    IF file.s = "missing"
    THEN [h |-> h, ok |-> FALSE, val |-> Undef, logs |-> {},
          err |-> Err("", "ENOENT: no such file or directory", path, "", "", Undef)]
    ELSE IF file.s = "empty"
    THEN [h |-> h, ok |-> TRUE, val |-> defaultValue, logs |-> {}, err |-> NoErr]
    ELSE IF file.s = "bad"
    THEN [h |-> h, ok |-> FALSE, val |-> Undef,
          logs |-> {[msg |-> "Failed to parse JSON", path |-> path]},
          err |-> Err("", "Invalid JSON in file", path, "", "", Undef)]
    ELSE LET r == Alloc(h, file.j)
         IN [h |-> r.h, ok |-> TRUE, val |-> r.val, logs |-> {}, err |-> NoErr]

\* Validation that does not look at autoValidate
ValidatedAlways(h, autoValidate, x, schema) ==
    LET v == validateAndCoerce(Snap(h, x), schema, "")
    IN IF ~v.ok THEN [h |-> h, ok |-> FALSE, val |-> Undef, err |-> v.err]
       ELSE LET r == Alloc(h, v.val)
            IN [h |-> r.h, ok |-> TRUE, val |-> r.val, err |-> NoErr]

\* autoValidate ? validateAndCoerce(x, schema, '') : x      [h, ok, val, err]
Validated(h, autoValidate, x, schema) ==
    IF ~autoValidate THEN [h |-> h, ok |-> TRUE, val |-> x, err |-> NoErr]
    ELSE LET v == validateAndCoerce(Snap(h, x), schema, "")
         IN IF ~v.ok THEN [h |-> h, ok |-> FALSE, val |-> Undef, err |-> v.err]
            ELSE LET r == Alloc(h, v.val)
                 IN [h |-> r.h, ok |-> TRUE, val |-> r.val, err |-> NoErr]

\* getFileLock that sets a new FileLock on every call
getFileLockNew(locks, path) ==
    [locks EXCEPT ![path] = [has |-> TRUE, queue |-> 0]]

\* getFileLock(filePath): the registry afterwards
getFileLock(locks, path) ==
    IF locks[path].has THEN locks
    ELSE [locks EXCEPT ![path] = [has |-> TRUE, queue |-> 0]]

----------------------------------------------------------------------------
(* createSDO(config, options) *)

\* createSDO without the validation of the default before the file system
InitialValidationSkipped(autoValidate, d, schema) ==
    [ok |-> TRUE, val |-> d, err |-> NoErr]

\* if (autoValidate) validateAndCoerce(defaultValue, schema, '')    [ok, val, err]
InitialValidation(autoValidate, d, schema) ==
    IF autoValidate THEN validateAndCoerce(d, schema, "")
    ELSE [ok |-> TRUE, val |-> d, err |-> NoErr]

\* The call, up to `await fs.access(absPath)`
createSDOCall(h, path, schema, defaultIn, autoValidate) ==
    /\ stores[h].pc = "idle"
    /\ \A g \in Handles : g < h => stores[g].pc # "idle"
    /\ \E c \in {IF defaultIn.t # "undefined"
                  THEN [ok |-> TRUE, val |-> defaultIn, err |-> NoErr]
                  ELSE createDefaultFromSchema(schema)} :
       \E d \in {c.val} :
       \E r \in {Alloc(heap, d)} :
       \E v \in {InitialValidation(autoValidate, d, schema)} :
       LET st == [stores[h] EXCEPT !.path = path, !.schema = schema,
                                   !.autoValidate = autoValidate,
                                   !.default0 = d,
                                   !.existed = fs[path].s # "missing"]
       IN IF ~c.ok      \* createDefaultFromSchema threw
          THEN /\ stores' = [stores EXCEPT ![h] = [st EXCEPT !.pc = "failed",
                                                             !.err = c.err]]
               /\ heap' = heap
          ELSE IF v.ok
          THEN /\ stores' = [stores EXCEPT ![h] = [st EXCEPT !.pc = "access",
                                                             !.defaultValue = r.val]]
               /\ heap' = r.h
          ELSE /\ stores' = [stores EXCEPT ![h] =
                    [st EXCEPT !.pc = "failed",
                               !.err = Wrap("Initial value validation failed", v.err)]]
               /\ heap' = heap
    /\ UNCHANGED <<fs, tasks, fileLocks, log, used>>

\* The catch block of createSDO, up to `await fs.mkdir(...)`
CatchAccessError(st, h) ==
    [st EXCEPT ![h].pc = "mkdir"]

\* fs.access settles; when the file exists fs.readFile is called
createSDOAccess(h) ==
    /\ stores[h].pc = "access"
    /\ IF fs[stores[h].path].s # "missing"
       THEN /\ stores' = [stores EXCEPT ![h].pc = "read"]
            /\ log' = log
       ELSE /\ stores' = CatchAccessError(stores, h)
            /\ log' = log \cup {[msg |-> "File not found, creating", path |-> stores[h].path]}
    /\ UNCHANGED <<heap, fs, tasks, fileLocks, used>>

\* What createSDO does with an error thrown inside its try block: the
\* catch (accessError) block is the handler of every one of them.
createSDOCaught(st, h, err) ==
    CatchAccessError(st, h)

\* fs.readFile settles: parse, validate, and return the handle
createSDORead(h) ==
    /\ stores[h].pc = "read"
    /\ \E s \in {stores[h]} :
       \E p \in {readAndParseJSON(heap, s.path, fs[s.path], s.defaultValue)} :
       \E v \in {IF p.ok THEN Validated(p.h, s.autoValidate, p.val, s.schema)
                 ELSE [h |-> p.h, ok |-> FALSE, val |-> Undef, err |-> p.err]} :
       LET e == IF p.ok THEN Wrap("Existing file data validation failed", v.err) ELSE p.err
           f == [stores EXCEPT ![h].found = fs[s.path]]
       IN IF v.ok
          THEN /\ stores' = [f EXCEPT ![h].pc = "open", ![h].data = v.val,
                                      ![h].prop = v.val]
               /\ heap' = Collect(v.h, Roots(stores', tasks))
               /\ fileLocks' = getFileLock(fileLocks, s.path)
               /\ log' = log \cup p.logs
          ELSE /\ stores' = createSDOCaught(f, h, e)
               /\ heap' = heap
               /\ fileLocks' = fileLocks
               /\ log' = log \cup p.logs
                         \cup (IF stores'[h].pc = "mkdir"
                               THEN {[msg |-> "File not found, creating", path |-> s.path]}
                               ELSE {})
    /\ UNCHANGED <<fs, tasks, used>>

\* fs.mkdir settles: the default is validated again and fs.writeFile called
createSDOMkdir(h) ==
    /\ stores[h].pc = "mkdir"
    /\ \E s \in {stores[h]} :
       \E v \in {Validated(heap, s.autoValidate, s.defaultValue, s.schema)} :
          IF v.ok
          THEN /\ stores' = [stores EXCEPT ![h].pc = "write", ![h].data = v.val,
                                           ![h].text = stringify(v.h, v.val)]
               /\ heap' = v.h
          ELSE /\ stores' = [stores EXCEPT ![h].pc = "failed", ![h].err = v.err]
               /\ heap' = heap
    /\ UNCHANGED <<fs, tasks, fileLocks, log, used>>

\* fs.writeFile settles: the handle is returned
createSDOWrite(h) ==
    /\ stores[h].pc = "write"
    /\ fs' = [fs EXCEPT ![stores[h].path] = Json(stores[h].text)]
    /\ stores' = [stores EXCEPT ![h].pc = "open", ![h].wrote = TRUE, ![h].text = Null,
                                ![h].prop = stores[h].data]
    /\ fileLocks' = getFileLock(fileLocks, stores[h].path)
    /\ UNCHANGED <<heap, tasks, log, used>>

----------------------------------------------------------------------------
(* FileLock *)

\* run() without `this.queue = ...`: every task waits for the first promise
QueueNotAdvanced(queue, t) == queue

\* this.queue after run(task) for task t: result.catch(() => {})
QueueAfterRun(queue, t) == t

\* run() calling the task at once instead of through this.queue.then
QueueNotAwaited(ts, prev) == "fulfilled"

\* run() with `this.queue = result`: a rejection stays in the queue
QueuePoisoned(ts, prev) ==
    IF prev = 0 THEN "fulfilled"
    ELSE IF ts[prev].pc = "rejected" THEN "rejected"
    ELSE IF ts[prev].pc = "fulfilled" THEN "fulfilled"
    ELSE "pending"

\* One queue for all paths: a task waits while any critical section runs
QueueShared(ts, prev) ==
    IF \E i \in 1..Len(ts) : ts[i].started /\ ts[i].pc \notin Settled THEN "pending"
    ELSE IF prev = 0 THEN "fulfilled"
    ELSE IF ts[prev].pc \in Settled THEN "fulfilled"
    ELSE "pending"

\* How the promise that was this.queue when task t was passed to run() has
\* settled: "pending", "fulfilled" or "rejected".  It is Promise.resolve()
\* or the result of an earlier task with its rejection caught.
QueueState(ts, prev) ==
    IF prev = 0 THEN "fulfilled"
    ELSE IF ts[prev].pc \in Settled THEN "fulfilled"
    ELSE "pending"

\* A write() whose task runs inside the call, up to its fs.writeFile
NewTaskEager(h, op, arg, prev) ==
    [h |-> h, op |-> op, arg |-> arg, prev |-> prev,
     pc |-> IF op = "write" THEN "io" ELSE "queued",
     text |-> IF op = "write" THEN stringify(heap, stores[h].data) ELSE Null,
     err |-> NoErr, started |-> op = "write", kept |-> FALSE,
     seen |-> IF op = "write" THEN stringify(heap, stores[h].data) ELSE Null]

NewTask(h, op, arg, prev) ==
    [h |-> h, op |-> op, arg |-> arg, prev |-> prev, pc |-> "queued",
     text |-> Null, err |-> NoErr,
     \* history: the task was called; its merge changed the content of a
     \* nested object that was there before and after; what data serialised
     \* to when write() was called
     started |-> FALSE, kept |-> FALSE,
     seen |-> IF op = "write" THEN stringify(heap, stores[h].data) ELSE Null]

\* store.write() / store.reload() / store.reset(newDefault): lock.run(...)
Call(h, op, argTree) ==
    /\ stores[h].pc = "open"
    /\ LET path == stores[h].path
           r    == Alloc(heap, argTree)
           t    == Len(tasks) + 1
       IN /\ tasks' = Append(tasks, NewTask(h, op, r.val, fileLocks[path].queue))
          /\ fileLocks' = [fileLocks EXCEPT ![path].queue = QueueAfterRun(@, t)]
          /\ heap' = r.h
    /\ UNCHANGED <<fs, stores, log, used>>

write(h)         == Call(h, "write", Undef)
reload(h)        == Call(h, "reload", Undef)
reset(h, newDef) == Call(h, "reset", newDef)

\* The data the methods of the handle work on, were it `this.data`
capturedDataThis(s) == s.prop

\* The data the methods of the handle work on: `const data` of createSDO,
\* which write(), reload() and reset() close over
capturedData(s) == s.data

\* write() without its validation
writeTaskUnchecked(h, s) ==
    [h |-> h, ok |-> TRUE, text |-> stringify(h, s.data), err |-> NoErr]

\* write() serialising what its validation returned
writeTaskRepaired(h, s) ==
    LET v == IF s.autoValidate THEN validateAndCoerce(Snap(h, s.data), s.schema, "")
             ELSE [ok |-> TRUE, val |-> Snap(h, s.data), err |-> NoErr]
        r == Alloc(h, v.val)
    IN IF v.ok
       THEN [h |-> h, ok |-> TRUE, text |-> stringify(r.h, r.val), err |-> NoErr]
       ELSE [h |-> h, ok |-> FALSE, text |-> Null,
             err |-> Wrap("Data validation failed before write", v.err)]

\* The task of write(), up to `await fs.writeFile(...)`: [h, ok, text, err]
writeTask(h, s) ==
    LET v == IF s.autoValidate THEN validateAndCoerce(Snap(h, capturedData(s)), s.schema, "")
             ELSE [ok |-> TRUE, val |-> Undef, err |-> NoErr]
    IN IF v.ok
       THEN [h |-> h, ok |-> TRUE, text |-> stringify(h, capturedData(s)), err |-> NoErr]
       ELSE [h |-> h, ok |-> FALSE, text |-> Null,
             err |-> Wrap("Data validation failed before write", v.err)]

\* The value reset() resets to
ResetValue(s, newDefault) ==
    IF newDefault.t # "undefined" THEN newDefault ELSE s.defaultValue

\* The task of reset(newDefault), up to `await fs.writeFile(...)`
resetTask(h, s, newDefault) ==
    LET v == Validated(h, s.autoValidate, ResetValue(s, newDefault), s.schema)
        u == updateDataRef(v.h, capturedData(s), v.val)
    IN IF ~v.ok THEN [h |-> h, ok |-> FALSE, text |-> Null, err |-> v.err]
       ELSE IF ~u.ok
       THEN [h |-> u.h, ok |-> FALSE, text |-> Null,
             err |-> Err("", "TypeError", 0, "", "", Undef)]
       ELSE [h |-> u.h, ok |-> TRUE, text |-> stringify(u.h, capturedData(s)), err |-> NoErr]

\* reload() merging the parsed content into data before it validates it
reloadTaskMergeFirst(h, s, file) ==
    LET p == readAndParseJSON(h, s.path, file, s.defaultValue)
        u == updateDataRef(p.h, s.data, p.val)
        v == validateAndCoerce(Snap(p.h, p.val), s.schema, "")
    IN IF ~p.ok THEN [h |-> h, ok |-> FALSE, err |-> p.err, logs |-> p.logs]
       ELSE IF s.autoValidate /\ ~v.ok
       THEN [h |-> u.h, ok |-> FALSE, err |-> v.err, logs |-> p.logs]
       ELSE [h |-> u.h, ok |-> u.ok, err |-> NoErr, logs |-> p.logs]

\* The task of reload(), after fs.readFile delivered `file`: [h, ok, err, logs]
reloadTask(h, s, file) ==
    LET p == readAndParseJSON(h, s.path, file, s.defaultValue)
        v == IF p.ok THEN Validated(p.h, s.autoValidate, p.val, s.schema)
             ELSE [h |-> p.h, ok |-> FALSE, val |-> Undef, err |-> p.err]
        u == updateDataRef(v.h, capturedData(s), v.val)
    IN IF ~v.ok THEN [h |-> h, ok |-> FALSE, err |-> v.err, logs |-> p.logs]
       ELSE IF ~u.ok
       THEN [h |-> u.h, ok |-> FALSE, logs |-> p.logs,
             err |-> Err("", "TypeError", 0, "", "", Undef)]
       ELSE [h |-> u.h, ok |-> TRUE, err |-> NoErr, logs |-> p.logs]

\* The promise task t waits for has settled: the then() of run() calls the
\* task (or, had the promise been rejected, the handler that logs and
\* rethrows).  The task runs up to its first await of the file system.
CanStart(t) ==
    /\ tasks[t].pc = "queued"
    /\ QueueState(tasks, tasks[t].prev) # "pending"

TaskStart(t) ==
    /\ CanStart(t)
    /\ LET k == tasks[t]
           s == stores[k.h]
       IN IF QueueState(tasks, k.prev) = "rejected"
          THEN /\ tasks' = [tasks EXCEPT ![t].pc = "rejected", ![t].err = tasks[k.prev].err]
               /\ log' = log \cup {[msg |-> "Task failed", path |-> s.path]}
               /\ heap' = heap
          ELSE IF k.op = "reload"
          THEN /\ tasks' = [tasks EXCEPT ![t].pc = "io", ![t].started = TRUE]
               /\ UNCHANGED <<heap, log>>
          ELSE \E r \in {IF k.op = "write" THEN writeTask(heap, s)
                         ELSE resetTask(heap, s, k.arg)} :
                 /\ tasks' = [tasks EXCEPT ![t].pc = IF r.ok THEN "io" ELSE "rejected",
                                           ![t].started = TRUE,
                                           ![t].kept = KeptAndChanged(heap, r.h, s.data),
                                           ![t].arg = IF r.ok THEN @ ELSE Undef,
                                           ![t].text = r.text, ![t].err = r.err]
                 /\ heap' = Collect(r.h, Roots(stores, tasks'))
                 /\ log' = log
    /\ UNCHANGED <<fs, stores, fileLocks, used>>

\* A write() and a reset() that keep the properties the file has and the
\* written object has not
fileAfterTaskMerge(h, s, k, file) ==
    IF k.op = "reload" THEN file
    ELSE IF file.s = "json" /\ file.j.t = "object" /\ k.text.t = "object"
    THEN Json(Obj(k.text.f @@ file.j.f))
    ELSE Json(k.text)

\* A reload() that, like reset(), ends with fs.writeFile of data
fileAfterTaskPersist(h, s, k, file) ==
    IF k.op = "reload" THEN Json(stringify(h, s.data)) ELSE Json(k.text)

\* The file at the path of store s when task k has run to its end on heap h
\* and found `file` there: reload() only calls fs.readFile, write() and
\* reset() call fs.writeFile with the text they serialised
fileAfterTask(h, s, k, file) ==
    IF k.op = "reload" THEN file ELSE Json(k.text)

\* The file system call of task t settles and the task runs to its end
TaskIO(t) ==
    /\ tasks[t].pc = "io"
    /\ LET k == tasks[t]
           s == stores[k.h]
       IN IF k.op = "reload"
          THEN \E r \in {reloadTask(heap, s, fs[s.path])} :
                 /\ tasks' = [tasks EXCEPT ![t].pc = IF r.ok THEN "fulfilled" ELSE "rejected",
                                           ![t].kept = KeptAndChanged(heap, r.h, s.data),
                                           ![t].err = r.err]
                 /\ heap' = Collect(r.h, Roots(stores, tasks'))
                 /\ log' = log \cup r.logs
                 /\ fs' = [fs EXCEPT ![s.path] = fileAfterTask(r.h, s, k, @)]
          ELSE /\ fs' = [fs EXCEPT ![s.path] = fileAfterTask(heap, s, k, @)]
               /\ tasks' = [tasks EXCEPT ![t].pc = "fulfilled", ![t].arg = Undef]
               /\ heap' = Collect(heap, Roots(stores, tasks'))
               /\ log' = log
    /\ UNCHANGED <<stores, fileLocks, used>>

----------------------------------------------------------------------------
(* The application and the world around the program *)

\* store.data.<key> = value, for a value without identity
SetField(h, a, key, value) == [h EXCEPT ![a].f = (key :> value) @@ @]

\* One in-memory change of store.data by the application
Mutate(h, kind) ==
    /\ stores[h].pc = "open"
    /\ IsObjectRef(heap, stores[h].data)
    /\ LET d == stores[h].data.v
           o == Get(heap, d, "o")
           a == Get(heap, d, "a")
           h1 == CASE kind = "n = 1"       -> SetField(heap, d, "n", Num(1))
                   [] kind = "n = 'a'"     -> SetField(heap, d, "n", Str(1))
                   [] kind = "delete n"    -> [heap EXCEPT ![d].f =
                                                 [k \in DOMAIN @ \ {"n"} |-> @[k]]]
                   [] kind = "x = 1"       -> SetField(heap, d, "x", Num(1))
                   [] kind = "toString = 1" -> SetField(heap, d, "toString", Num(1))
                   [] kind = "o.s = 'a'"   -> IF IsObjectRef(heap, o)
                                              THEN SetField(heap, o.v, "s", Str(1))
                                              ELSE heap
                   [] kind = "o = {}"      -> LET r == Alloc(heap, Obj(NoF))
                                              IN SetField(r.h, d, "o", r.val)
                   [] kind = "a.push(1)"   -> IF IsArrayRef(heap, a)
                                              THEN [heap EXCEPT ![a.v].e = Append(@, Num(1))]
                                              ELSE heap
       IN /\ h1 # heap
          /\ heap' = Collect(h1, Roots(stores, tasks))
    /\ used' = [used EXCEPT !.mutate = @ + 1]
    /\ UNCHANGED <<fs, stores, tasks, fileLocks, log>>

\* store.data.push(value) by the application, on a store whose data is an
\* array, for a value without identity
Push(h, value) ==
    /\ stores[h].pc = "open"
    /\ IsArrayRef(heap, stores[h].data)
    /\ heap' = [heap EXCEPT ![stores[h].data.v].e = Append(@, value)]
    /\ used' = [used EXCEPT !.mutate = @ + 1]
    /\ UNCHANGED <<fs, stores, tasks, fileLocks, log>>

\* store.data = value by the application: the property of the handle is
\* given a new object
AssignData(h, value) ==
    /\ stores[h].pc = "open"
    /\ \E r \in {Alloc(heap, value)} :
          /\ stores' = [stores EXCEPT ![h].prop = r.val]
          /\ heap' = Collect(r.h, Roots(stores', tasks))
    /\ used' = [used EXCEPT !.mutate = @ + 1]
    /\ UNCHANGED <<fs, tasks, fileLocks, log>>

\* Another program replaces the content of a file
ExternalEdit(p, file) ==
    /\ fs[p].s # "missing"
    /\ fs[p] # file
    /\ fs' = [fs EXCEPT ![p] = file]
    /\ used' = [used EXCEPT !.edits = @ + 1]
    /\ UNCHANGED <<heap, stores, tasks, fileLocks, log>>

----------------------------------------------------------------------------
(* Specifications.  Each one runs the same operations; it fixes the stores *)
(* that are opened, the values the callers pass and how many calls,        *)
(* in-memory changes and outside edits there are.                          *)

InitWith(handles, paths, files) ==
    /\ heap = NoF
    /\ fs \in [paths -> files]
    /\ stores = [h \in handles |-> NoStore]
    /\ tasks = <<>>
    /\ fileLocks = [p \in paths |-> [has |-> FALSE, queue |-> 0]]
    /\ log = {}
    /\ used = [mutate |-> 0, edits |-> 0]

OpenCall(schema, defaults, modes) ==
    \E h \in Handles, p \in Paths, d \in defaults, av \in modes :
        createSDOCall(h, p, schema, d, av)

OpenSteps ==
    \/ \E h \in Handles : createSDOAccess(h)
    \/ \E h \in Handles : createSDORead(h)
    \/ \E h \in Handles : createSDOMkdir(h)
    \/ \E h \in Handles : createSDOWrite(h)

Calls(maxTasks, resetArgs) ==
    /\ Len(tasks) < maxTasks
    /\ \/ \E h \in Handles : write(h)
       \/ \E h \in Handles : reload(h)
       \/ \E h \in Handles, v \in resetArgs : reset(h, v)

Run ==
    \/ \E t \in 1..Len(tasks) : TaskStart(t)
    \/ \E t \in 1..Len(tasks) : TaskIO(t)

Mutations(maxMutate, kinds) ==
    /\ used.mutate < maxMutate
    /\ \E h \in Handles, k \in kinds : Mutate(h, k)

Assigns(maxMutate, values) ==
    /\ used.mutate < maxMutate
    /\ \E h \in Handles, v \in values : AssignData(h, v)

Pushes(maxMutate, values) ==
    /\ used.mutate < maxMutate
    /\ \E h \in Handles, v \in values : Push(h, v)

Edits(maxEdits, files) ==
    /\ used.edits < maxEdits
    /\ \E p \in Paths, f \in files : ExternalEdit(p, f)

(* One handle, with or without validation, on a path whose file is absent, *)
(* empty or holds an object (with a property the schema does not name);    *)
(* the application changes data in memory between the calls.               *)
StoreTasks  == 1
StoreMutate == 1

MutateKinds == {"n = 1", "x = 1", "toString = 1", "o.s = 'a'", "o = {}", "a.push(1)"}

\* config.defaultValue of createSDO and the argument of reset
StoreDefaults == {Undef, Full}
StoreValues   == {Undef, Other}

InitStore == InitWith({1}, {1}, {Missing, EmptyText, Json(Full), Json(Extra)})
NextStore ==
    \/ OpenCall(ObjSchema, StoreDefaults, BOOLEAN)
    \/ OpenSteps
    \/ Calls(StoreTasks, StoreValues)
    \/ Run
    \/ Mutations(StoreMutate, MutateKinds)
SpecStore == InitStore /\ [][NextStore]_vars

(* One createSDO call, with or without validation and with or without a    *)
(* default, on a path whose file is absent, empty, malformed, conforming or *)
(* not conforming to the schema.                                           *)
OpenDefaults == {Undef, Full, WrongN}

InitOpen == InitWith({1}, {1}, {Missing, EmptyText, BadText,
                                Json(Full), Json(Extra), Json(WrongN)})
NextOpen ==
    \/ OpenCall(ObjSchema, OpenDefaults, BOOLEAN)
    \/ OpenSteps
SpecOpen == InitOpen /\ [][NextOpen]_vars

\* No createSDO call is in progress
NoneOpening == \A h \in Handles : stores[h].pc \in {"idle", "open", "failed"}

(* Two handles on one path, opened one after the other with validation on: *)
(* calls that succeed and calls that fail (reload of a malformed file,     *)
(* reset to an invalid value), in any interleaving with the file system.   *)
LockTasks  == 2
LockEdits  == 1

\* The argument of reset
LockValues == {Undef, NotNum}

InitLock == InitWith({1, 2}, {1}, {Json(One)})
NextLock ==
    \/ NoneOpening /\ OpenCall(NumSchema, {Undef}, {TRUE})
    \/ OpenSteps
    \/ Calls(LockTasks, LockValues)
    \/ Run
    \/ Edits(LockEdits, {BadText})
SpecLock == InitLock /\ [][NextLock]_vars

\* A step of Run is possible: the promise some queued task waits for has
\* settled, or some task waits for the file system (ENABLED <<Run>>_vars)
RunReady == \E t \in 1..Len(tasks) : CanStart(t) \/ tasks[t].pc = "io"

\* The same, when the event loop runs every callback that is ready and every
\* call of the file system settles: weak fairness of Run, WF_vars(Run),
\* written out with RunReady for ENABLED <<Run>>_vars
SpecLockFair ==
    /\ SpecLock
    /\ ([]<>(~RunReady) \/ []<><<Run>>_vars)

(* Two handles with validation on, opened one after the other on one path  *)
(* whose file is absent or conforming: the application changes data in     *)
(* memory (also into a non-conforming value), writes and reloads, while    *)
(* another program may replace the file by a malformed one or delete it.   *)
ShareTasks  == 2
ShareMutate == 1
ShareEdits  == 1

ShareKinds == {"n = 'a'", "x = 1", "toString = 1", "delete n"}
\* What another program leaves at the path
ShareFiles == {BadText, Missing, Json(NotNum)}

InitShare == InitWith({1, 2}, {1}, {Missing, Json(One)})
NextShare ==
    \/ NoneOpening /\ OpenCall(NumSchema, {Undef}, {TRUE})
    \/ OpenSteps
    \/ Calls(ShareTasks, {Undef})
    \/ Run
    \/ Mutations(ShareMutate, ShareKinds)
    \/ Edits(ShareEdits, ShareFiles)
SpecShare == InitShare /\ [][NextShare]_vars

(* One handle with validation on whose data is an array of numbers, on a   *)
(* path whose file is absent or holds [1]; the application pushes a number *)
(* or a string, and writes, reloads and resets.                            *)
ArrayTasks == 2
ArrayPush  == 1

\* The argument of reset, and of data.push
ArrayValues == {Undef, Arr(<<Num(0)>>)}
ArrayItems  == {Num(1), Str(1)}

InitArray == InitWith({1}, {1}, {Missing, Json(Arr(<<Num(1)>>))})
NextArray ==
    \/ OpenCall(NumArrSchema, {Undef}, {TRUE})
    \/ OpenSteps
    \/ Calls(ArrayTasks, ArrayValues)
    \/ Run
    \/ Pushes(ArrayPush, ArrayItems)
SpecArray == InitArray /\ [][NextArray]_vars

(* Two handles, with or without validation, opened one after the other on  *)
(* a path without a file: the first one changes its data in memory and     *)
(* writes it before or after the second one is opened.                     *)
RoundTasks  == 1
RoundMutate == 2

RoundKinds == {"n = 1", "a.push(1)", "o.s = 'a'", "x = 1"}

InitRound == InitWith({1, 2}, {1}, {Missing})
NextRound ==
    \/ NoneOpening /\ OpenCall(ObjSchema, {Undef}, BOOLEAN)
    \/ OpenSteps
    \/ Calls(RoundTasks, {Undef})
    \/ Run
    \/ Mutations(RoundMutate, RoundKinds)
SpecRound == InitRound /\ [][NextRound]_vars

(* validateAndCoerce on the content of an existing file: one createSDO     *)
(* call with validation on, for schemas with required and optional         *)
(* primitives, nested objects, arrays of numbers and of objects and a      *)
(* field named like a member of Object.prototype, on files that conform,   *)
(* lack fields, hold null, hold values of another type or more properties. *)
FlatSchema  == SObj(<<"n", "s", "b">>,
                    [n |-> Prim("number"), s |-> Opt("string"), b |-> Prim("boolean")])
ItemsSchema == SObj(<<"a">>,
                    [a |-> SArr(<<SObj(<<"n", "s">>,
                                       [n |-> Opt("number"), s |-> Prim("string")])>>)])
NamedSchema == SObj(<<"n", "toString">>,
                    [n |-> Prim("number"), toString |-> Opt("string")])
ValSchemas  == {FlatSchema, ObjSchema, ItemsSchema, NamedSchema}

ValContents ==
    { Obj([n |-> Num(1), s |-> Str(1), b |-> Bool(1)]),
      Obj([n |-> Str(1), b |-> Bool(0)]),
      Obj([n |-> Null, s |-> Null]),
      Obj([n |-> Num(1), s |-> Num(1), b |-> Bool(1)]),
      Obj([n |-> Obj(NoF), b |-> Arr(<<>>)]),
      Obj(NoF),
      Full, Extra, Named, WrongN, NullO,
      Tree3(Num(1), Obj([s |-> Num(1), x |-> Num(1)]), Arr(<<Num(1), Str(1)>>)),
      Obj([a |-> Arr(<<Obj([n |-> Num(1), s |-> Str(1), x |-> Num(1)]),
                       Obj([s |-> Str(1)])>>)]),
      Obj([a |-> Arr(<<Obj([n |-> Str(1), s |-> Str(1)])>>)]),
      Obj([a |-> Arr(<<Obj(NoF), Obj([n |-> Null])>>), n |-> Num(0)]),
      Obj([a |-> Arr(<<Null>>)]),
      Obj([n |-> Num(1), toString |-> Null]) }

InitValidate == InitWith({1}, {1}, {Json(c) : c \in ValContents})
NextValidate ==
    \/ \E schema \in ValSchemas : OpenCall(schema, {Undef}, {TRUE})
    \/ OpenSteps
SpecValidate == InitValidate /\ [][NextValidate]_vars

(* createDefaultFromSchema: one createSDO call without a default, with or   *)
(* without validation, for well-formed schemas of every shape: an object    *)
(* with required and optional primitives, nested objects and arrays, an     *)
(* array of arrays, an array of objects, an empty object, a field named     *)
(* like a member of Object.prototype, and an array as the whole schema.     *)
NestSchema  == SObj(<<"a", "o">>,
                    [a |-> SArr(<<SArr(<<Opt("number")>>)>>),
                     o |-> SObj(<<"o", "b">>,
                                [o |-> SObj(<<>>, NoF), b |-> Opt("boolean")])])
RowsSchema  == SArr(<<SObj(<<"n", "s">>, [n |-> Prim("number"), s |-> Opt("string")])>>)
DefSchemas  == {FlatSchema, ObjSchema, ItemsSchema, NamedSchema, NestSchema,
                NumArrSchema, RowsSchema, SObj(<<>>, NoF)}
DefFiles    == {Missing, EmptyText, BadText, Json(Obj(NoF)), Json(Arr(<<>>))}

InitDefault == InitWith({1}, {1}, DefFiles)
NextDefault ==
    \/ \E schema \in DefSchemas : OpenCall(schema, {Undef}, BOOLEAN)
    \/ OpenSteps
SpecDefault == InitDefault /\ [][NextDefault]_vars

(* One createSDO call with validation on, on a file whose content fails in  *)
(* several fields at once: fields of the root, of a nested object, of the   *)
(* objects in an array, elements of an array, for a schema that is an       *)
(* object, an array, or has a field whose name is the empty string.         *)
KeySchema == SObj(<<"n", "">>,
                  ("n" :> Prim("number")) @@ ("" :> SObj(<<"s">>, [s |-> Prim("string")])))
ErrSchemas == {FlatSchema, ObjSchema, ItemsSchema, RowsSchema, KeySchema}

ErrContents ==
    { Obj([n |-> Num(1), s |-> Str(1), b |-> Bool(1)]),
      Obj([n |-> Obj(NoF), b |-> Arr(<<>>)]),
      Obj([n |-> Num(1), s |-> Num(1), b |-> Str(1)]),
      Tree3(Str(1), Obj([s |-> Num(1)]), Arr(<<Num(1), Str(1), Bool(1)>>)),
      Tree3(Num(1), Num(1), Num(1)),
      Obj([a |-> Arr(<<Obj([n |-> Num(1), s |-> Str(1)]),
                       Obj([n |-> Str(1), s |-> Num(1)]),
                       Obj([s |-> Num(0)])>>)]),
      Arr(<<Obj([n |-> Num(1)]), Obj([n |-> Str(1), s |-> Num(1)])>>),
      Obj(("n" :> Num(1)) @@ ("" :> Obj([s |-> Num(1)]))),
      Obj(("n" :> Str(1)) @@ ("" :> Obj([s |-> Num(1)]))) }

ErrFiles == {Missing} \cup {Json(c) : c \in ErrContents}

InitErrors == InitWith({1}, {1}, ErrFiles)
NextErrors ==
    \/ \E schema \in ErrSchemas : OpenCall(schema, {Undef}, {TRUE})
    \/ OpenSteps
SpecErrors == InitErrors /\ [][NextErrors]_vars

(* Schemas with an array declaration of no or of two elements, as a field   *)
(* of the schema, of a nested object, and inside the item schema of another *)
(* array: one createSDO call, with or without validation and default, on a  *)
(* path without a file or with content whose arrays are empty or not.       *)
NoItems     == SArr(<<>>)
TwoItems    == SArr(<<Prim("number"), Prim("string")>>)
BadField    == SObj(<<"n", "a">>, [n |-> Prim("number"), a |-> NoItems])
BadPair     == SObj(<<"a">>, [a |-> TwoItems])
BadNested   == SObj(<<"o">>, [o |-> SObj(<<"a">>, [a |-> NoItems])])
BadItem     == SObj(<<"a">>, [a |-> SArr(<<NoItems>>)])
BadItemObj  == SObj(<<"a">>, [a |-> SArr(<<SObj(<<"a">>, [a |-> TwoItems])>>)])
BadSchemas  == {BadField, BadPair, BadNested, BadItem, BadItemObj}
EmptyA      == Obj([a |-> Arr(<<>>)])
BadDefaults == {Undef, EmptyA}
BadFiles    == {Missing, Json(EmptyA),
                Json(Obj([a |-> Arr(<<Arr(<<>>)>>), o |-> EmptyA])),
                Json(Obj([a |-> Arr(<<EmptyA>>), n |-> Num(1)]))}

InitSchema == InitWith({1}, {1}, BadFiles)
NextSchema ==
    \/ \E schema \in BadSchemas : OpenCall(schema, BadDefaults, BOOLEAN)
    \/ OpenSteps
SpecSchema == InitSchema /\ [][NextSchema]_vars

(* One handle with validation off (autoValidate: false), opened with or     *)
(* without a default that does not conform, on a path without a file or     *)
(* with content that does not conform; the application puts a string into   *)
(* a number field, and writes, reloads and resets (also to a value that     *)
(* does not conform).                                                       *)
LenientTasks  == 1
LenientMutate == 1

LenientDefaults == {Undef, WrongN}
LenientValues   == {Undef, NotNum}
LenientKinds    == {"n = 'a'", "x = 1", "o = {}"}
LenientFiles    == {Missing, EmptyText, Json(WrongN), Json(NullO), Json(RootArr)}

InitLenient == InitWith({1}, {1}, LenientFiles)
NextLenient ==
    \/ OpenCall(ObjSchema, LenientDefaults, {FALSE})
    \/ OpenSteps
    \/ Calls(LenientTasks, LenientValues)
    \/ Run
    \/ Mutations(LenientMutate, LenientKinds)
SpecLenient == InitLenient /\ [][NextLenient]_vars

(* One handle that does not validate, opened with a default on a path       *)
(* without a file or with one: the property o of data and of the value     *)
(* reset() merges into it is absent, undefined, null, a number, an array   *)
(* (of numbers, of objects) or an object, in every combination.            *)
MergeTasks == 1

\* What the property o holds
MergeSlots == {Undef, Null, Num(1), Arr(<<Num(1)>>), Arr(<<Obj([s |-> Str(1)])>>),
               Arr(<<Obj([s |-> Str(0)]), Num(0)>>), Obj([s |-> Str(1)]), Obj(NoF)}

\* config.defaultValue of createSDO, and the argument of reset
MergeShapes == {Obj(NoF)} \cup {Obj([o |-> v]) : v \in MergeSlots}
MergeValues == {Undef} \cup MergeShapes

InitMerge == InitWith({1}, {1}, {Missing, Json(Obj([o |-> Obj(NoF)]))})
NextMerge ==
    \/ OpenCall(ObjSchema, MergeShapes, {FALSE})
    \/ OpenSteps
    \/ Calls(MergeTasks, MergeValues)
    \/ Run
SpecMerge == InitMerge /\ [][NextMerge]_vars

(* One handle, with or without validation: the application assigns another *)
(* object (conforming to the schema or not) to the data property of the    *)
(* handle, before or between the calls of write, reload and reset.         *)
AssignTasks  == 2
AssignMutate == 1

\* What the application assigns to store.data, and the argument of reset
AssignObjects == {NotNum, Obj([n |-> Num(0)])}
AssignValues  == {Undef, Obj([n |-> Num(0)])}

InitAssign == InitWith({1}, {1}, {Missing, Json(One)})
NextAssign ==
    \/ OpenCall(NumSchema, {Undef}, BOOLEAN)
    \/ OpenSteps
    \/ Calls(AssignTasks, AssignValues)
    \/ Run
    \/ Assigns(AssignMutate, AssignObjects)
SpecAssign == InitAssign /\ [][NextAssign]_vars

(* Two handles and two paths: each createSDO call opens either path, at any *)
(* moment (also while the other call or a critical section is in progress), *)
(* and the handles write, reload and reset (also to an invalid value).      *)
PathsTasks  == 2
PathsValues == {Undef, NotNum}

InitPaths == InitWith({1, 2}, {1, 2}, {Missing, Json(One)})
NextPaths ==
    \/ OpenCall(NumSchema, {Undef}, {TRUE})
    \/ OpenSteps
    \/ Calls(PathsTasks, PathsValues)
    \/ Run
SpecPaths == InitPaths /\ [][NextPaths]_vars

----------------------------------------------------------------------------
(* Claims about the lock *)

PathOf(t) == stores[tasks[t].h].path
InProgress(t) == tasks[t].started /\ tasks[t].pc \notin Settled

\* C1: the critical sections of the write/reload/reset calls on one path
\* start in the order of the calls: at every moment the calls that have
\* started are the first ones made on that path.
C1_FifoStart ==
    \A i, j \in 1..Len(tasks) :
        (i < j /\ PathOf(i) = PathOf(j) /\ tasks[j].started) => tasks[i].started

\* Two calls from two handles, made while neither had started; the first
\* (a reload, which waits for the file system) has settled and the second
\* is running
C1_Witness ==
    /\ Len(tasks) >= 2
    /\ tasks[1].h # tasks[2].h
    /\ tasks[2].prev = 1
    /\ tasks[1].pc \in Settled /\ tasks[1].op = "reload"
    /\ tasks[2].pc = "io"

\* C2: on each path at most one critical section is in progress (started
\* and not settled), whichever handles the calls come from.
C2_OneAtATime ==
    \A i, j \in 1..Len(tasks) :
        (i # j /\ PathOf(i) = PathOf(j)) => ~(InProgress(i) /\ InProgress(j))

\* A critical section of one handle suspended at the file system while a
\* call of the other handle waits
C2_Witness ==
    \E i, j \in 1..Len(tasks) :
        /\ tasks[i].h # tasks[j].h
        /\ tasks[i].pc = "io"
        /\ tasks[j].pc = "queued"

\* The errors the task of an operation can throw itself
OwnError(op, err) ==
    CASE op = "write"  -> err.prefix = "Data validation failed before write"
      [] op = "reload" -> err.prefix = "" /\ err.msg # ""
      [] op = "reset"  -> err.prefix = "" /\ err.msg \in {"must be a number", "TypeError"}

\* C3: a failure reaches the caller of the run() whose task failed, and no
\* other: a rejected call is one whose own task ran and threw; and a call
\* whose predecessor has settled (failed or not) can start.
C3_FailureIsolated ==
    \A t \in 1..Len(tasks) :
        /\ tasks[t].pc = "rejected" => tasks[t].started /\ OwnError(tasks[t].op, tasks[t].err)
        /\ tasks[t].pc = "fulfilled" => tasks[t].started /\ tasks[t].err = NoErr
        /\ (tasks[t].pc = "queued" /\ tasks[t].prev # 0 /\ tasks[tasks[t].prev].pc \in Settled)
                => CanStart(t)

\* A failed call followed, on the same path, by a call that succeeded
C3_Witness ==
    \E i, j \in 1..Len(tasks) :
        /\ i < j /\ PathOf(i) = PathOf(j)
        /\ tasks[i].pc = "rejected"
        /\ tasks[j].pc = "fulfilled"

----------------------------------------------------------------------------
(* Claims about reload and reset *)

Data(h) == stores[h].data

\* Task t takes a step of its operation
Steps(t, op) == tasks[t].op = op /\ tasks'[t] # tasks[t]

\* reload task t completes its merge in this step
ReloadDone(t) ==
    tasks[t].op = "reload" /\ tasks[t].pc = "io" /\ tasks'[t].pc = "fulfilled"

\* reset task t completes its merge in this step, and calls fs.writeFile
ResetMerged(t) ==
    tasks[t].op = "reset" /\ tasks[t].pc = "queued" /\ tasks'[t].pc = "io"

\* reset task t completes in this step
ResetDone(t) ==
    tasks[t].op = "reset" /\ tasks[t].pc = "io" /\ tasks'[t].pc = "fulfilled"

\* autoValidate ? validateAndCoerce(x, schema, '') : x, on contents
ValidForm(s, x) ==
    IF s.autoValidate THEN validateAndCoerce(x, s.schema, "").val ELSE x

\* C4: across every step of a reload or reset, the data of the store is the
\* same object as before, and a plain object reached from it through object
\* properties both before and after the step is the same object.
C4_IdentityKept ==
    [][\A t \in 1..Len(tasks) :
          (t <= Len(tasks') /\ (Steps(t, "reload") \/ Steps(t, "reset"))) =>
              LET h == tasks[t].h
              IN /\ stores'[h].data = stores[h].data
                 /\ \A n \in ObjectsOf(heap, Data(h)), m \in ObjectsOf(heap', Data(h)) :
                        n[1] = m[1] => n[2] = m[2]]_vars

\* A reload or reset changed the content of a nested object that was there
\* before and after it
C4_Witness ==
    \E t \in 1..Len(tasks) : tasks[t].op \in {"reload", "reset"} /\ tasks[t].kept

\* C5: when a reload with autoValidate on succeeds, the content of data is
\* that of validate(parsed file content, schema).
C5_ReloadEqualsValidated ==
    [][\A t \in 1..Len(tasks) :
          (t <= Len(tasks') /\ ReloadDone(t) /\ stores[tasks[t].h].autoValidate) =>
              LET s == stores[tasks[t].h]
                  parsed == IF fs[s.path].s = "empty" THEN Snap(heap, s.defaultValue)
                            ELSE fs[s.path].j
              IN Snap(heap', s.data) = validateAndCoerce(parsed, s.schema, "").val]_vars

\* C6: when reset(v) succeeds, the content of data is the validated form of
\* v, or of the default of the createSDO call when v is omitted, and the
\* file is written with the serialization of that data.
C6_ResetEqualsValue ==
    [][\A t \in 1..Len(tasks) :
          t <= Len(tasks') =>
              LET s == stores[tasks[t].h]
                  v == IF tasks[t].arg.t = "undefined" THEN s.default0
                       ELSE Snap(heap, tasks[t].arg)
              IN /\ ResetMerged(t) =>
                        /\ Snap(heap', s.data) = ValidForm(s, v)
                        /\ tasks'[t].text = stringify(heap', s.data)
                 /\ ResetDone(t) => fs'[s.path] = Json(tasks[t].text)]_vars

\* C7: reset() without argument leaves the content of data equal to the
\* default in effect at the createSDO call (its validated form when
\* autoValidate is on).
C7_ResetRestoresDefault ==
    [][\A t \in 1..Len(tasks) :
          (t <= Len(tasks') /\ ResetMerged(t) /\ tasks[t].arg.t = "undefined") =>
              LET s == stores[tasks[t].h]
              IN Snap(heap', s.data) = ValidForm(s, s.default0)]_vars

----------------------------------------------------------------------------
(* Claims about createSDO on an existing file *)

\* The file that createSDO read does not conform to the schema of the store
Nonconforming(s) ==
    s.found.s = "json" /\ ~validateAndCoerce(s.found.j, s.schema, "").ok

\* C8: a createSDO call that read a file whose content is not empty and not
\* JSON fails with 'Invalid JSON in file: <path>', and returns no handle.
C8_InvalidJsonFails ==
    \A h \in Handles :
        stores[h].found = BadText =>
            /\ stores[h].pc = "failed"
            /\ stores[h].err.msg = "Invalid JSON in file"
            /\ stores[h].err.file = stores[h].path

\* C9: with autoValidate on, a createSDO call that read a file whose JSON
\* does not conform to the schema fails with 'Existing file data validation
\* failed: <cause>', and returns no handle.
C9_SchemaMismatchFails ==
    \A h \in Handles :
        (stores[h].autoValidate /\ Nonconforming(stores[h])) =>
            /\ stores[h].pc = "failed"
            /\ stores[h].err.prefix = "Existing file data validation failed"

\* C10: createSDO writes the file only when it did not exist at the call: a
\* file that existed keeps its content.
C10_ExistingFileKept ==
    \A h \in Handles :
        stores[h].existed =>
            /\ ~stores[h].wrote
            /\ stores[h].found # Missing => fs[stores[h].path] = stores[h].found

\* The default of createSDO call h does not conform to the schema
BadDefault(h) ==
    ~validateAndCoerce(stores[h].default0, stores[h].schema, "").ok

\* C11: with autoValidate on, a createSDO call whose default does not conform
\* to the schema fails with 'Initial value validation failed: <cause>' before
\* it calls the file system: it never waits for fs.access, fs.readFile,
\* fs.mkdir or fs.writeFile, reads no file and writes none.
C11_InitialValidationFirst ==
    \A h \in Handles :
        (stores[h].pc # "idle" /\ stores[h].autoValidate /\ BadDefault(h)) =>
            /\ stores[h].pc = "failed"
            /\ stores[h].err = Wrap("Initial value validation failed",
                                    validateAndCoerce(stores[h].default0,
                                                      stores[h].schema, "").err)
            /\ stores[h].found = Missing
            /\ ~stores[h].wrote

\* Such a call has failed, on a path whose file exists
C11_Witness ==
    \E h \in Handles :
        /\ stores[h].pc = "failed" /\ stores[h].autoValidate /\ BadDefault(h)
        /\ stores[h].existed
        /\ fs[stores[h].path] = Json(Full)

----------------------------------------------------------------------------
(* Claims about write, reload and the file *)

\* The store of task t
StoreOf(t) == stores[tasks[t].h]

\* The critical section of task t starts in this step
Starts(t) == tasks[t].pc = "queued" /\ tasks'[t].pc # "queued"

\* C12: with autoValidate on, a write() whose critical section finds data not
\* conforming to the schema fails with 'Data validation failed before write:
\* <cause>' and the file is not written.
C12_InvalidWriteRejected ==
    [][\A t \in 1..Len(tasks) :
          (/\ t <= Len(tasks') /\ tasks[t].op = "write" /\ Starts(t)
           /\ StoreOf(t).autoValidate
           /\ ~validateAndCoerce(Snap(heap, Data(tasks[t].h)), StoreOf(t).schema, "").ok)
          => /\ tasks'[t].pc = "rejected"
             /\ tasks'[t].err =
                    Wrap("Data validation failed before write",
                         validateAndCoerce(Snap(heap, Data(tasks[t].h)),
                                           StoreOf(t).schema, "").err)
             /\ fs' = fs]_vars

\* A write() was rejected for data whose n is a string
C12_Witness ==
    \E t \in 1..Len(tasks) :
        /\ tasks[t].op = "write" /\ tasks[t].pc = "rejected"
        /\ tasks[t].err.prefix = "Data validation failed before write"
        /\ tasks[t].err.field = "n" /\ tasks[t].err.got = "string"
        /\ fs[PathOf(t)] = Json(One)

\* The program writes the file of path p in this step
Writes(p) == fs'[p] # fs[p] /\ used'.edits = used.edits

\* C13: when the stores on a path validate (autoValidate on) against one
\* schema, every content the program writes to the file of that path is JSON
\* that passes validateAndCoerce against that schema.
C13_WrittenContentValid ==
    [][\A p \in Paths : \A h \in Handles :
          (Writes(p) /\ stores'[h].pc # "idle" /\ stores'[h].path = p
           /\ stores'[h].autoValidate)
          => /\ fs'[p].s = "json"
             /\ validateAndCoerce(fs'[p].j, stores'[h].schema, "").ok]_vars

\* reload task t ends in this step
ReloadEnds(t) == tasks[t].op = "reload" /\ tasks[t].pc = "io" /\ tasks'[t].pc # "io"

\* The error of a reload of store s that finds file f, NoErr when there is
\* none of: a failed read, malformed JSON, content that fails validation
ReloadError(s, f) ==
    CASE f.s = "missing" -> Err("", "ENOENT: no such file or directory", s.path, "", "", Undef)
      [] f.s = "bad"     -> Err("", "Invalid JSON in file", s.path, "", "", Undef)
      [] f.s = "empty"   -> NoErr
      [] f.s = "json"    -> IF s.autoValidate
                            THEN validateAndCoerce(f.j, s.schema, "").err
                            ELSE NoErr

\* C14: a reload() that fails because the read fails, the content is
\* malformed JSON or the parsed content fails validation rejects with that
\* error (the read error as it is), and leaves the content of data and the
\* file as they were.
C14_FailedReloadKeepsData ==
    [][\A t \in 1..Len(tasks) :
          (t <= Len(tasks') /\ ReloadEnds(t)
           /\ ReloadError(StoreOf(t), fs[PathOf(t)]) # NoErr)
          => /\ tasks'[t].pc = "rejected"
             /\ tasks'[t].err = ReloadError(StoreOf(t), fs[PathOf(t)])
             /\ Snap(heap', Data(tasks[t].h)) = Snap(heap, Data(tasks[t].h))
             /\ stores' = stores
             /\ fs' = fs]_vars

\* A reload() failed on content that does not conform, after data was
\* changed in memory
C14_Witness ==
    \E t \in 1..Len(tasks) :
        /\ tasks[t].op = "reload" /\ tasks[t].pc = "rejected"
        /\ tasks[t].err.msg = "must be a number"
        /\ used.mutate > 0

\* What JSON.parse(JSON.stringify(x)) is for the content x of a value
RECURSIVE JsonOf(_)
JsonOf(x) ==
    IF x.t = "object"
    THEN Obj([k \in {k \in DOMAIN x.f : x.f[k].t \notin {"undefined", "function"}} |->
                JsonOf(x.f[k])])
    ELSE IF x.t = "array"
    THEN Arr([i \in 1..Len(x.e) |->
                IF x.e[i].t \in {"undefined", "function"} THEN Null ELSE JsonOf(x.e[i])])
    ELSE x

\* Content c conforms to the schema: validation accepts it and changes
\* nothing in it
Conforms(c, schema) ==
    /\ validateAndCoerce(c, schema, "").ok
    /\ JsonOf(validateAndCoerce(c, schema, "").val) = c

\* The file of path p holds what a completed write() of handle g wrote
WrittenBy(g, p) ==
    \E t \in 1..Len(tasks) :
        /\ tasks[t].op = "write" /\ tasks[t].h = g /\ tasks[t].pc = "fulfilled"
        /\ stores[g].path = p
        /\ fs[p] = Json(tasks[t].text)

WriteDone(t) == tasks[t].op = "write" /\ tasks[t].pc = "io" /\ tasks'[t].pc = "fulfilled"

\* C16: for two handles on one path, the step that completes a write() of one
\* leaves the content of the other's data as it is; and when a reload() of
\* the other completes on the file as that write() left it (conforming
\* content), its data has the written content.
C16_ReloadSeesWrite ==
    [][\A t \in 1..Len(tasks) : \A g \in Handles :
          (t <= Len(tasks') /\ g # tasks[t].h /\ stores[g].pc = "open"
           /\ stores[g].path = PathOf(t))
          => /\ WriteDone(t) => Snap(heap', Data(g)) = Snap(heap, Data(g))
             /\ (/\ ReloadDone(t) /\ WrittenBy(g, PathOf(t))
                 /\ Conforms(fs[PathOf(t)].j, StoreOf(t).schema))
                => JsonOf(Snap(heap', Data(tasks[t].h))) = fs[PathOf(t)].j]_vars

----------------------------------------------------------------------------
(* Claims about createSDO on a path without a file *)

\* C17: a createSDO call on a path without a file returns data whose content
\* is the validated default (the caller's, or createDefaultFromSchema's when
\* none is given), and has created the file with the serialization of it.
C17_CreatesFileFromDefault ==
    \A h \in Handles :
        (stores[h].pc = "open" /\ ~stores[h].existed) =>
            /\ stores[h].wrote
            /\ Snap(heap, Data(h)) = ValidForm(stores[h], stores[h].default0)
            /\ fs[stores[h].path] = Json(JsonOf(ValidForm(stores[h], stores[h].default0)))

\* Opened without a default on a path without a file: the array field of the
\* schema is an empty array in data and in the file
C17_Witness ==
    \E h \in Handles :
        /\ stores[h].pc = "open" /\ ~stores[h].existed
        /\ stores[h].default0 = Tree3(Num(0), Obj([s |-> Undef]), Arr(<<>>))
        /\ fs[stores[h].path] = Json(Tree3(Num(0), Obj(NoF), Arr(<<>>)))

----------------------------------------------------------------------------
(* Claims about validateAndCoerce *)

\* The own property `key` of the content x of an object, undefined when x
\* has no such property
Own(x, key) == IF key \in DOMAIN x.f THEN x.f[key] ELSE Undef

\* The primitive fields of `data` under `schema`: for every primitive type
\* the schema declares, at every place of data where the enclosing objects
\* and arrays are there, the path of the field, its declared type and its
\* value (undefined for a field that is missing).
RECURSIVE Fields(_, _, _)
Fields(data, schema, path) ==
    IF schema.t = "array"
    THEN IF data.t # "array" THEN {}
         ELSE UNION {Fields(data.e[i], schema.items[1],
                            path \o "[" \o ToString(i - 1) \o "]") : i \in 1..Len(data.e)}
    ELSE IF schema.t = "object"
    THEN IF data.t # "object" THEN {}
         ELSE UNION {Fields(Own(data, k), schema.f[k],
                            IF path = "" THEN k ELSE path \o "." \o k) : k \in DOMAIN schema.f}
    ELSE {[path |-> path, type |-> schema.t, opt |-> schema.opt, val |-> data]}

Absent(l)   == l.val.t \in {"undefined", "null"}
Mismatch(l) == ~Absent(l) /\ TypeOf(l.val) # l.type

\* The validations a createSDO call has made of the file it read:
\* <<content, schema, result of validateAndCoerce>>
Validations ==
    {<<stores[h].found.j, stores[h].schema,
       validateAndCoerce(stores[h].found.j, stores[h].schema, "")>> :
        h \in {h \in Handles : stores[h].found.s = "json"}}

\* C18: validateAndCoerce rejects a value that has a present primitive field
\* of another type than declared, required or optional; the error raised for
\* a present primitive field names its path, its declared type, the actual
\* type and the value, and that field is one of another type than declared;
\* and in an accepted value every present primitive field is returned as it is.
C18_TypeMismatchRejected ==
    \A v \in Validations :
        LET in == Fields(v[1], v[2], "")
            r  == v[3]
        IN /\ (\E l \in in : Mismatch(l)) => ~r.ok
           /\ \A l \in in :
                  (~r.ok /\ r.err.field = l.path /\ ~Absent(l)) =>
                      /\ Mismatch(l)
                      /\ r.err.msg = "must be a " \o l.type
                      /\ r.err.got = TypeOf(l.val)
                      /\ r.err.val = l.val
           /\ r.ok => \A l \in in : \A m \in Fields(r.val, v[2], "") :
                         (l.path = m.path /\ ~Absent(l)) => m.val = l.val

\* A number in an optional string field was rejected, and a content with
\* present fields of the declared types was accepted
C18_Witness ==
    /\ \E v \in Validations :
          /\ ~v[3].ok /\ v[3].err.field = "s" /\ v[3].err.got = "number"
          /\ v[2] = FlatSchema
    /\ stores[1].pc = "mkdir"

\* The zero value of a primitive type
Zero(type) ==
    CASE type = "string"  -> Str(0)
      [] type = "number"  -> Num(0)
      [] type = "boolean" -> Bool(0)

\* C19: validateAndCoerce does not fail for a primitive field that is missing
\* or null: the error it raises is never about such a field, and in an
\* accepted value such a field is the zero value of its type when required
\* and undefined when optional.
C19_MissingPrimitiveRepaired ==
    \A v \in Validations :
        LET in == Fields(v[1], v[2], "")
            r  == v[3]
        IN /\ \A l \in in : (~r.ok /\ Absent(l)) => r.err.field # l.path
           /\ r.ok => \A l \in in : \A m \in Fields(r.val, v[2], "") :
                         (l.path = m.path /\ Absent(l)) =>
                             m.val = IF l.opt THEN Undef ELSE Zero(l.type)

\* The key sets of value x are those of the schema, at every object of it
RECURSIVE ExactKeys(_, _)
ExactKeys(x, schema) ==
    IF schema.t = "array"
    THEN x.t = "array" /\ \A i \in 1..Len(x.e) : ExactKeys(x.e[i], schema.items[1])
    ELSE IF schema.t = "object"
    THEN /\ x.t = "object"
         /\ DOMAIN x.f = DOMAIN schema.f
         /\ \A k \in DOMAIN schema.f : ExactKeys(x.f[k], schema.f[k])
    ELSE TRUE

\* C20: the value validateAndCoerce returns for an object schema has exactly
\* the keys of the schema, at every level, also in the objects inside
\* arrays; and a createSDO call that adopts it holds it in new objects.
C20_ResultKeysAreSchemaKeys ==
    /\ \A v \in Validations : v[3].ok => ExactKeys(v[3].val, v[2])
    /\ \A h \in Handles :
          (stores[h].pc = "open" /\ stores[h].existed) =>
              /\ ExactKeys(Snap(heap, Data(h)), stores[h].schema)
              /\ Data(h) # stores[h].defaultValue

\* A file whose objects, also those inside an array, have properties the
\* schema does not name was accepted
C20_Witness ==
    \E h \in Handles :
        /\ stores[h].pc = "open" /\ stores[h].schema = ItemsSchema
        /\ "a" \in DOMAIN stores[h].found.j.f
        /\ stores[h].found.j.f["a"].e # <<>>
        /\ "x" \in DOMAIN stores[h].found.j.f["a"].e[1].f
        /\ "x" \notin DOMAIN Snap(heap, Data(h)).f["a"].e[1].f

----------------------------------------------------------------------------
(* Claims about createDefaultFromSchema and the schema *)

\* The schema and every schema declared inside it
RECURSIVE SubSchemas(_)
SubSchemas(schema) ==
    {schema} \cup
    (IF schema.t = "array"
     THEN UNION {SubSchemas(schema.items[i]) : i \in 1..Len(schema.items)}
     ELSE IF schema.t = "object"
     THEN UNION {SubSchemas(schema.f[k]) : k \in DOMAIN schema.f}
     ELSE {})

\* C21: for a well-formed schema, and for every schema declared inside it,
\* createDefaultFromSchema does not fail and validateAndCoerce accepts its
\* result and returns a value with the same content; so a createSDO call
\* without a default does not fail in its validation of the default.
C21_DefaultIsValid ==
    \A h \in Handles :
        stores[h].pc # "idle" =>
            /\ \A s \in SubSchemas(stores[h].schema) :
                   /\ createDefaultFromSchema(s).ok
                   /\ validateAndCoerce(createDefaultFromSchema(s).val, s, "")
                        = [ok |-> TRUE, val |-> createDefaultFromSchema(s).val,
                           err |-> NoErr]
            /\ stores[h].default0 = createDefaultFromSchema(stores[h].schema).val
            /\ stores[h].pc # "failed"

\* A store opened with validation on a path without a file, from the default
\* of a schema with an optional primitive inside an object inside an object
C21_Witness ==
    \E h \in Handles :
        /\ stores[h].pc = "open" /\ stores[h].autoValidate /\ stores[h].wrote
        /\ stores[h].schema = NestSchema
        /\ Snap(heap, Data(h)) =
              Obj([a |-> Arr(<<>>), o |-> Obj([o |-> Obj(NoF), b |-> Undef])])

\* C22: validateAndCoerce is idempotent: when it accepts a value, it accepts
\* its own result for the same schema and returns a value with the same
\* content.
C22_ValidateIdempotent ==
    \A v \in Validations :
        v[3].ok => validateAndCoerce(v[3].val, v[2], "") = v[3]

\* An accepted file whose validated content differs from it: a null in an
\* optional field named like a member of Object.prototype became undefined
C22_Witness ==
    \E h \in Handles :
        /\ stores[h].pc = "open" /\ stores[h].schema = NamedSchema
        /\ stores[h].found = Json(Obj([n |-> Num(1), toString |-> Null]))
        /\ Snap(heap, Data(h)) = Obj([n |-> Num(1), toString |-> Undef])

\* The schema holds an array declaration that has not exactly one element
Malformed(schema) ==
    \E s \in SubSchemas(schema) : s.t = "array" /\ Len(s.items) # 1

\* C23: a schema that holds an array declaration of no or of more than one
\* element, wherever it is declared, is rejected by createDefaultFromSchema
\* and by validateAndCoerce for every input (the default and the content of
\* the file here, empty arrays included), so that a validating createSDO call
\* with such a schema does not return a store.
C23_MalformedArrayRejected ==
    \A h \in Handles :
        (stores[h].pc # "idle" /\ Malformed(stores[h].schema)) =>
            /\ ~createDefaultFromSchema(stores[h].schema).ok
            /\ ~validateAndCoerce(stores[h].default0, stores[h].schema, "").ok
            /\ fs[stores[h].path].s = "json" =>
                  ~validateAndCoerce(fs[stores[h].path].j, stores[h].schema, "").ok
            /\ stores[h].autoValidate => stores[h].pc # "open"

----------------------------------------------------------------------------
(* Claims about stores whose data is an array *)

\* C24: when the data of a store is an array, a reload() or reset() that
\* succeeds leaves data the same array, holding the elements of the new
\* value in order: the validated content of the file for reload(), the
\* validated reset value for reset().
C24_RootArrayReplaced ==
    [][\A t \in 1..Len(tasks) :
          (t <= Len(tasks') /\ IsArrayRef(heap, Data(tasks[t].h))) =>
              LET s      == stores[tasks[t].h]
                  parsed == IF fs[s.path].s = "empty" THEN Snap(heap, s.defaultValue)
                            ELSE fs[s.path].j
                  value  == Snap(heap, ResetValue(s, tasks[t].arg))
              IN /\ ReloadDone(t) =>
                        /\ stores'[tasks[t].h].data = s.data
                        /\ Snap(heap', s.data) = ValidForm(s, parsed)
                 /\ ResetMerged(t) =>
                        /\ stores'[tasks[t].h].data = s.data
                        /\ Snap(heap', s.data) = ValidForm(s, value)]_vars

----------------------------------------------------------------------------
(* Claims about stores that do not validate *)

\* The error is one validateAndCoerce raised, as it is or behind the prefix
\* of one of the places that call it
IsValidationError(err) ==
    \/ err.msg \in {"must be a string", "must be a number", "must be a boolean",
                    "must be an object", "must be an array"}
    \/ err.prefix \in {"Initial value validation failed",
                       "Existing file data validation failed",
                       "Data validation failed before write"}

\* C25: with autoValidate off, createSDO, write, reload and reset never fail
\* with a validation error, and createSDO does not fail at all: the default
\* is taken as it is and written when the file is created, the parsed
\* content of a file is taken as data as it is, and write() serializes data
\* without checking it.
C25_NoValidationWhenOff ==
    [][\A h \in Handles :
          (stores'[h].pc # "idle" /\ ~stores'[h].autoValidate) =>
              LET s == stores[h]
              IN /\ stores'[h].pc # "failed"
                 /\ ~IsValidationError(stores'[h].err)
                 /\ \A t \in 1..Len(tasks') :
                        tasks'[t].h = h => ~IsValidationError(tasks'[t].err)
                 /\ (s.pc = "read" /\ stores'[h].pc # "read" /\ fs[s.path].s = "json") =>
                        /\ stores'[h].pc = "open"
                        /\ Snap(heap', stores'[h].data) = fs[s.path].j
                 /\ (s.pc = "mkdir" /\ stores'[h].pc # "mkdir") =>
                        /\ stores'[h].pc = "write"
                        /\ stores'[h].data = s.defaultValue
                        /\ Snap(heap', s.defaultValue) = s.default0
                 /\ (s.pc = "write" /\ stores'[h].pc # "write") =>
                        /\ stores'[h].pc = "open"
                        /\ fs'[s.path] = Json(JsonOf(s.default0))
                 /\ \A t \in 1..Len(tasks) :
                        (/\ tasks[t].h = h /\ tasks[t].op = "write"
                         /\ tasks[t].pc = "queued" /\ tasks'[t].pc # "queued") =>
                            /\ tasks'[t].pc = "io"
                            /\ tasks'[t].text = JsonOf(Snap(heap, s.data))]_vars

\* A store created with validation off from a default whose n is a string,
\* and a completed write() of data that does not conform
C25_Witness ==
    \E h \in Handles : \E t \in 1..Len(tasks) :
        /\ stores[h].pc = "open" /\ ~stores[h].autoValidate
        /\ ~stores[h].existed /\ stores[h].wrote
        /\ stores[h].default0 = WrongN
        /\ tasks[t].h = h /\ tasks[t].op = "write" /\ tasks[t].pc = "fulfilled"
        /\ ~validateAndCoerce(tasks[t].text, stores[h].schema, "").ok
        /\ fs[stores[h].path] = Json(tasks[t].text)

----------------------------------------------------------------------------
(* Claims about the locks of different paths and the registry *)

\* Every call made before call t on the path of t has settled
EarlierSettled(t) ==
    \A i \in 1..(t - 1) : PathOf(i) = PathOf(t) => tasks[i].pc \in Settled

\* C26: operations on different paths do not wait for each other: a call
\* whose earlier calls on the same path have all settled can start, whatever
\* critical sections are in progress, and stay in progress, on other paths.
C26_PathsIndependent ==
    \A t \in 1..Len(tasks) :
        (tasks[t].pc = "queued" /\ EarlierSettled(t)) => CanStart(t)

\* A critical section on one path is suspended at the file system, and one
\* called later on the other path has started and is suspended too
C26_Witness ==
    \E i, j \in 1..Len(tasks) :
        /\ i < j /\ PathOf(i) # PathOf(j)
        /\ tasks[i].pc = "io" /\ tasks[j].pc = "io"

\* C27: whenever a task run under the lock throws or rejects, run() logs
\* 'Task failed' for it and the caller of that run() gets the error of the
\* task.
C27_FailureLogged ==
    \A t \in 1..Len(tasks) :
        tasks[t].pc = "rejected" =>
            /\ [msg |-> "Task failed", path |-> PathOf(t)] \in log
            /\ OwnError(tasks[t].op, tasks[t].err)

\* The createSDO call of handle h is at one of its file system steps
Opening(h) == stores[h].pc \in {"access", "read", "mkdir", "write"}

\* C28: the file system steps of createSDO (existence check, read, creation
\* of the file) never run while a critical section of write/reload/reset
\* on the same path is in progress, and the file system steps of two
\* createSDO calls on one path never overlap.
C28_OpenUnderLock ==
    /\ \A h \in Handles : \A t \in 1..Len(tasks) :
          (Opening(h) /\ stores[h].path = PathOf(t)) => ~InProgress(t)
    /\ \A g, h \in Handles :
          (g # h /\ Opening(g) /\ Opening(h)) => stores[g].path # stores[h].path

\* The last call made before call t on the path of call t, 0 when t is the
\* first call on its path
LastOnPath(t) ==
    LET earlier == {i \in 1..(t - 1) : PathOf(i) = PathOf(t)}
    IN IF earlier = {} THEN 0
       ELSE CHOOSE i \in earlier : \A j \in earlier : j <= i

\* Handle h has passed getFileLock(absPath)
HasLock(h) == stores[h].pc = "open"

\* C30: the registry holds one lock per absolute path for the whole run.
\* Every call, through whichever handle of the path, is chained to the last
\* earlier call on the same path (equal paths share the lock) and the queue
\* of a path waits only for a call on that path (distinct paths have distinct
\* locks); a path has an entry only once a handle on it has called
\* getFileLock; and an entry, once there, is never removed and is never
\* replaced by a new lock: its queue changes only by advancing to a call just
\* made on its path.
C30_OneLockPerPath ==
    /\ [](\A t \in 1..Len(tasks) : tasks[t].prev = LastOnPath(t))
    /\ [](\A p \in Paths :
            /\ fileLocks[p].queue # 0 => PathOf(fileLocks[p].queue) = p
            /\ fileLocks[p].has => \E h \in Handles : HasLock(h) /\ stores[h].path = p
            /\ ~fileLocks[p].has => fileLocks[p].queue = 0)
    /\ [][\A p \in Paths :
            fileLocks[p].has =>
                /\ fileLocks'[p].has
                /\ \/ fileLocks'[p].queue = fileLocks[p].queue
                   \/ /\ Len(tasks') = Len(tasks) + 1
                      /\ fileLocks'[p].queue = Len(tasks')
                      /\ stores[tasks'[Len(tasks')].h].path = p]_vars

\* Two handles are open on one path, the second opened after a call through
\* the first, and a call through the second is chained to that call
C30_Witness ==
    \E t \in 1..Len(tasks) :
        /\ tasks[t].prev # 0
        /\ tasks[tasks[t].prev].h < tasks[t].h
        /\ PathOf(tasks[t].prev) = PathOf(t)
        /\ \E p \in Paths : p # PathOf(t) /\ ~fileLocks[p].has

----------------------------------------------------------------------------
(* Claims about progress *)

\* Call t was made, its task ran and its promise has settled
RanAndSettled(t) ==
    Len(tasks) >= t /\ tasks[t].started /\ tasks[t].pc \in Settled

\* C29: when ready callbacks are run and every file system call settles,
\* every write/reload/reset that is called starts and its promise settles;
\* and a call starts only when every earlier call on its path has settled
\* (so that one that never settles keeps all later ones from starting).
C29_EveryCallSettles ==
    /\ [](\A i, j \in 1..Len(tasks) :
            (i < j /\ PathOf(i) = PathOf(j) /\ tasks[j].started)
                => tasks[i].pc \in Settled)
    /\ \A t \in 1..LockTasks : (Len(tasks) >= t) ~> RanAndSettled(t)

\* A call that had to wait for a call that failed has run and settled
C29_Witness ==
    \E t \in 1..Len(tasks) :
        /\ tasks[t].prev # 0 /\ tasks[tasks[t].prev].pc = "rejected"
        /\ RanAndSettled(t)

----------------------------------------------------------------------------
(* Claims about what the operations do to the file and to data *)

\* C31: no step of a reload() changes a file, whether the reload succeeds or
\* fails; a reset() succeeds only through its fs.writeFile, which leaves in
\* the file the serialization of data as its merge left it.
C31_ReloadKeepsFile ==
    [][\A t \in 1..Len(tasks) :
          t <= Len(tasks') =>
              /\ Steps(t, "reload") => fs' = fs
              /\ ResetMerged(t) => tasks'[t].text = stringify(heap', Data(tasks[t].h))
              /\ ResetDone(t) => fs'[PathOf(t)] = Json(tasks[t].text)
              /\ (tasks[t].op = "reset" /\ tasks[t].pc # "fulfilled"
                  /\ tasks'[t].pc = "fulfilled") => ResetDone(t)]_vars

\* A reset() has written the file, another program has left malformed text
\* there since, and a reload() that failed on it has left it as it was
C31_Witness ==
    \E i, j \in 1..Len(tasks) :
        /\ i < j
        /\ tasks[i].op = "reset" /\ tasks[i].pc = "fulfilled"
        /\ tasks[j].op = "reload" /\ tasks[j].pc = "rejected"
        /\ fs[PathOf(j)] = BadText

\* The value the reset() of task t merges into data
Merged(t) == ResetValue(StoreOf(t), tasks[t].arg)

\* The critical section of reset task t starts in this step and merges an
\* object into data, which is an object
ResetMerges(t) ==
    /\ tasks[t].op = "reset" /\ Starts(t)
    /\ IsObjectRef(heap, Data(tasks[t].h)) /\ IsObjectRef(heap, Merged(t))

\* C32: in the merge of an object into data, every property of the source
\* whose value and whose slot in the target are not both plain objects and
\* not both arrays is assigned: afterwards the target holds the very value of
\* the source, whatever kind the value (primitive, undefined, null, array,
\* object) and the slot (absent included) are of; and the merge does not fail.
C32_OtherwiseAssigned ==
    [][\A t \in 1..Len(tasks) :
          (t <= Len(tasks') /\ ResetMerges(t)) =>
              /\ tasks'[t].pc = "io"
              /\ \A key \in DOMAIN heap[Merged(t).v].f :
                    LET slot  == Get(heap, Data(tasks[t].h).v, key)
                        value == heap[Merged(t).v].f[key]
                    IN ~(\/ IsObjectRef(heap, slot) /\ IsObjectRef(heap, value)
                         \/ IsArrayRef(heap, slot) /\ IsArrayRef(heap, value))
                       => /\ key \in DOMAIN heap'[Data(tasks[t].h).v].f
                          /\ heap'[Data(tasks[t].h).v].f[key] = value]_vars

\* C33: in the merge of an object into data, for every property whose slot in
\* the target and whose value in the source are both arrays, the target keeps
\* its array object, which afterwards holds the elements of the new array, in
\* order, as the very values the new array held; an object the array held
\* before is left as it was.
C33_ArrayRefilled ==
    [][\A t \in 1..Len(tasks) :
          (t <= Len(tasks') /\ ResetMerges(t)) =>
              \A key \in DOMAIN heap[Merged(t).v].f :
                  LET slot  == Get(heap, Data(tasks[t].h).v, key)
                      value == heap[Merged(t).v].f[key]
                  IN (IsArrayRef(heap, slot) /\ IsArrayRef(heap, value)) =>
                        /\ heap'[Data(tasks[t].h).v].f[key] = slot
                        /\ heap'[slot.v].e = heap[value.v].e
                        /\ \A i \in 1..Len(heap[slot.v].e) :
                              LET old == heap[slot.v].e[i]
                              IN (old.t = "ref" /\ old.v \in DOMAIN heap')
                                    => heap'[old.v] = heap[old.v]]_vars

----------------------------------------------------------------------------
(* Claims about the errors of validateAndCoerce *)

RECURSIVE Concat(_)
Concat(seqs) == IF seqs = <<>> THEN <<>> ELSE Head(seqs) \o Concat(Tail(seqs))

\* Every failure of data against the schema, in the order in which the
\* fields of the schema and the elements of arrays are gone through, each
\* with the path of its field from the root: the names on the way joined by
\* '.', an element as [index].  `names` tells whether the path holds a name
\* or an index yet.
RECURSIVE Failures(_, _, _, _)
Failures(data, schema, path, names) ==
    IF schema.t = "array" THEN
        IF data.t # "array"
        THEN <<Err("", "must be an array", 0, path, TypeOf(data), Undef)>>
        ELSE Concat([i \in 1..Len(data.e) |->
                        Failures(data.e[i], schema.items[1],
                                 path \o "[" \o ToString(i - 1) \o "]", TRUE)])
    ELSE IF schema.t = "object" THEN
        IF data.t # "object"
        THEN <<Err("", "must be an object", 0, path, TypeOf(data), Undef)>>
        ELSE Concat([i \in 1..Len(schema.keys) |->
                        Failures(TreeGet(data, schema.keys[i]), schema.f[schema.keys[i]],
                                 IF names THEN path \o "." \o schema.keys[i]
                                 ELSE schema.keys[i], TRUE)])
    ELSE IF data.t \in {"undefined", "null"} \/ TypeOf(data) = schema.t THEN <<>>
    ELSE <<Err("", Article(schema.t), 0, path, TypeOf(data), data)>>

\* C34: when a content fails validation, the error is the first of its
\* failures in the order of the schema's fields (of the indexes, in an
\* array), with the full path of the field from the root, and enclosing
\* levels add nothing to it.
C34_FirstFailureFullPath ==
    \A v \in Validations :
        ~v[3].ok =>
            LET all == Failures(v[1], v[2], "", FALSE)
            IN all # <<>> /\ v[3].err = all[1]

----------------------------------------------------------------------------
(* Claims about a file without content *)

\* The createSDO call of handle h reads the file in this step
OpenReads(h) == stores[h].pc = "read" /\ stores'[h].pc # "read"

\* C35: a createSDO call and a reload() that find the file empty (or holding
\* white space only) succeed; afterwards the content of data is the default
\* of the createSDO call (its validated form when autoValidate is on), and
\* the file is as it was.
C35_EmptyFileGivesDefault ==
    [][/\ \A h \in Handles :
             (OpenReads(h) /\ fs[stores[h].path] = EmptyText) =>
                 /\ stores'[h].pc = "open"
                 /\ Snap(heap', stores'[h].data) = ValidForm(stores[h], stores[h].default0)
                 /\ fs' = fs
       /\ \A t \in 1..Len(tasks) :
             (t <= Len(tasks') /\ ReloadEnds(t) /\ fs[PathOf(t)] = EmptyText) =>
                 /\ tasks'[t].pc = "fulfilled"
                 /\ Snap(heap', Data(tasks[t].h)) = ValidForm(StoreOf(t), StoreOf(t).default0)
                 /\ fs' = fs]_vars

----------------------------------------------------------------------------
(* Claims about the data the operations work on *)

\* The data property of handle h holds another object than the data of the
\* createSDO call
Reassigned(h) == stores[h].prop # stores[h].data

\* C36: write(), reload() and reset() work on the object that was data when
\* createSDO returned, whatever has been assigned to the data property of
\* the handle since: no step of theirs changes which object that is or what
\* the property holds; write() validates and serialises that object; reset()
\* serialises it after its merge; and the object a caller has assigned to
\* the property is neither merged into nor otherwise changed.
C36_ClosureData ==
    [][\A t \in 1..Len(tasks) :
          (t <= Len(tasks') /\ tasks'[t] # tasks[t]) =>
              LET h == tasks[t].h
                  s == stores[h]
              IN /\ stores' = stores
                 /\ Reassigned(h) => Snap(heap', s.prop) = Snap(heap, s.prop)
                 /\ (tasks[t].op = "write" /\ Starts(t)) =>
                        /\ tasks'[t].pc = "rejected" <=>
                               /\ s.autoValidate
                               /\ ~validateAndCoerce(Snap(heap, s.data), s.schema, "").ok
                        /\ tasks'[t].pc = "io" =>
                               tasks'[t].text = stringify(heap, s.data)
                 /\ (tasks[t].op = "reset" /\ Starts(t) /\ tasks'[t].pc = "io") =>
                        tasks'[t].text = stringify(heap', s.data)]_vars

\* The application has assigned an object that does not conform to the
\* schema to the data property of a validating store; a reset() has changed
\* data since and a write() after it has written data to the file
C36_Witness ==
    \E i, j \in 1..Len(tasks) :
        /\ i < j
        /\ tasks[i].op = "reset" /\ tasks[i].pc = "fulfilled"
        /\ tasks[j].op = "write" /\ tasks[j].pc = "fulfilled"
        /\ stores[1].autoValidate /\ Reassigned(1)
        /\ Snap(heap, stores[1].prop) = NotNum
        /\ fs[1] = Json(Obj([n |-> Num(0)]))

\* The critical section of task t starts in this step: it had not started,
\* or had not been called, before
Begins(t) == tasks'[t].started /\ ~(t <= Len(tasks) /\ tasks[t].started)

\* C37: the critical section of a write() starts in a later step than the
\* call, and it validates and serialises data as it is when it starts: the
\* write fails exactly when that state does not pass validation, and the
\* text it writes to the file is the serialization of that state, changes
\* made to data between the call and the start included.
C37_WriteSeesStartState ==
    [][\A t \in 1..Len(tasks') :
          /\ (tasks'[t].op = "write" /\ Begins(t)) =>
                /\ t <= Len(tasks)
                /\ tasks'[t].pc = "rejected" <=>
                       /\ StoreOf(t).autoValidate
                       /\ ~validateAndCoerce(Snap(heap, Data(tasks[t].h)),
                                             StoreOf(t).schema, "").ok
                /\ tasks'[t].pc = "io" =>
                       tasks'[t].text = stringify(heap, Data(tasks[t].h))
          /\ (t <= Len(tasks) /\ WriteDone(t)) => fs'[PathOf(t)] = Json(tasks[t].text)]_vars

\* A write() that was called while a task of the other handle was before it
\* in the queue has written a text that is not the serialization data had
\* at the call: the application changed data in between
C37_Witness ==
    \E i, j \in 1..Len(tasks) :
        /\ tasks[j].prev = i /\ tasks[i].h # tasks[j].h
        /\ tasks[j].op = "write" /\ tasks[j].pc = "fulfilled"
        /\ tasks[j].text # tasks[j].seen
        /\ fs[PathOf(j)] = Json(tasks[j].text)

----------------------------------------------------------------------------
(* Claims about the file after writes of several handles *)

\* The write() and reset() calls on path p that have completed
Completed(p) ==
    {t \in 1..Len(tasks) :
        PathOf(t) = p /\ tasks[t].op \in {"write", "reset"} /\ tasks[t].pc = "fulfilled"}

\* The one of them whose critical section ran last (they run in call order)
LastCompleted(p) == CHOOSE t \in Completed(p) : \A u \in Completed(p) : u <= t

\* C38: the step that completes a write() or reset() leaves in the file
\* exactly the text that call serialised from the data of its handle,
\* whatever the file held; no other step of a task changes a file; so, as
\* long as nothing but write() and reset() has written the file since (no
\* other program, no createSDO call creating it), it holds exactly what the
\* last completed write() or reset() on its path serialised, with nothing of
\* what other handles wrote before.
C38_LastWriterWins ==
    /\ [][\A t \in 1..Len(tasks) :
             t <= Len(tasks') =>
                 /\ (WriteDone(t) \/ ResetDone(t)) => fs'[PathOf(t)] = Json(tasks[t].text)
                 /\ (tasks'[t] # tasks[t] /\ ~WriteDone(t) /\ ~ResetDone(t)) => fs' = fs]_vars
    /\ [](\A p \in Paths :
             (Completed(p) # {} /\ used.edits = 0) =>
                 fs[p] = Json(tasks[LastCompleted(p)].text))

\* One handle has written data with a property x; the other handle, whose
\* data has none, has written after it, and the file has no x
C38_Witness ==
    \E i, j \in 1..Len(tasks) :
        /\ i < j /\ tasks[i].h # tasks[j].h
        /\ tasks[i].op = "write" /\ tasks[i].pc = "fulfilled"
        /\ tasks[j].op \in {"write", "reset"} /\ tasks[j].pc = "fulfilled"
        /\ "x" \in DOMAIN tasks[i].text.f
        /\ "x" \notin DOMAIN tasks[j].text.f
        /\ used.edits = 0
        /\ fs[PathOf(j)] = Json(tasks[j].text)

\* C39: a write() that succeeds changes nothing in data, in neither of its
\* steps, and the text it writes is the serialization of data as it is, not
\* of what the validation before it returned: a property of data the schema
\* does not name is in the text, and a required field data has not is not
\* added, neither to data nor to the text.
C39_WriteVerbatim ==
    [][\A t \in 1..Len(tasks) :
          (t <= Len(tasks') /\ tasks[t].op = "write") =>
              LET d == Data(tasks[t].h)
              IN /\ (Starts(t) /\ tasks'[t].pc = "io") =>
                        /\ Snap(heap', d) = Snap(heap, d)
                        /\ tasks'[t].text = JsonOf(Snap(heap, d))
                        /\ DOMAIN tasks'[t].text.f \subseteq DOMAIN heap[d.v].f
                        /\ \A key \in DOMAIN heap[d.v].f :
                               heap[d.v].f[key].t \in {"number", "string", "boolean", "null"}
                                   => tasks'[t].text.f[key] = heap[d.v].f[key]
                 /\ WriteDone(t) =>
                        /\ Snap(heap', d) = Snap(heap, d)
                        /\ fs'[PathOf(t)] = Json(tasks[t].text)]_vars

\* A validating store whose data has lost its required field n has been
\* written: neither the file nor data has the field
C39_Witness ==
    \E t \in 1..Len(tasks) :
        /\ tasks[t].op = "write" /\ tasks[t].pc = "fulfilled"
        /\ StoreOf(t).autoValidate
        /\ "n" \in DOMAIN StoreOf(t).schema.f
        /\ "n" \notin DOMAIN heap[Data(tasks[t].h).v].f
        /\ fs[PathOf(t)] = Json(tasks[t].text)
        /\ "n" \notin DOMAIN fs[PathOf(t)].j.f

====
